---- MODULE Spec2Model ----
(***************************************************************************)
(* A model of the authorization core of sjek_go: the session store and the *)
(* per-request authentication gate (internal/middleware), the permission   *)
(* matrix reconciled from the route table (internal/routes, API handlers)  *)
(* and the role-filtered menu tree (menu handlers).                        *)
(*                                                                         *)
(* The relational store is modelled table by table: a table is a set (or,  *)
(* for user_tokens, a sequence) of rows, a query is a set comprehension,   *)
(* gorm's First is the matching row with the smallest primary key.         *)
(***************************************************************************)
EXTENDS Integers, Sequences, FiniteSets, TLC

VARIABLES
    \* ---- permission matrix -------------------------------------------
    routes,         \* router.Routes(): the declared (path, method) pairs, in order
    apis,           \* table apis: rows [id, path, method]
    map_role_api,   \* join table map_role_api: rows [role_id, api_id]
    roles,          \* table roles: rows [id, name]
    boot,           \* SetupRouter: [i |-> next route of insertAPIEndpoints (0: serving), clean |-> no store error so far in this run]
    access,         \* the last decision of APIAccessMiddleware taken on its own
    reconciled,     \* history: the apis table as the last clean run of insertAPIEndpoints left it, while no handler and no new release has changed it; runs counts such runs (up to 2)
    partial,        \* history: [ins |-> the rows the running insertAPIEndpoints has inserted, left |-> the rows inserted by runs that stopped with a declared route still without entry, since the last run that reached its end]
    \* ---- sessions and requests ---------------------------------------
    now,            \* time.Now(), in ticks
    map_user_role,  \* join table map_user_role: rows [user_id, role_id]
    user_tokens,    \* table user_tokens: the sequence of rows [user_id, token, expires_at, is_active]; a row's id is its index
    req,            \* the requests on protected routes: one record per connection
    revoked,        \* history: the token strings Logout, RevokeToken or RevokeAllTokens deactivated
    JWTSecret,      \* the package variable JWTSecret: the HMAC key tokens are signed and verified with
    \* ---- login audit ------------------------------------------------
    logins,         \* the Login attempts: the sequence of [login, path (where Login returned), pc, status, error, token (the response carries one), jwt (the string GenerateToken returned)]
    tasks,          \* the goroutines saveLoginLog started: the sequence of [attempt, log, state]
    login_logs,     \* table login_logs: rows [id (the task that wrote it), attempt, user_id, status, message]
    \* ---- menu tree ---------------------------------------------------
    menus,          \* table menus: rows [id, parent_id (0: NULL), is_active]
    map_role_menu,  \* join table map_role_menu: rows [role_id, menu_id]
    menuResp,       \* the response of the last menu handler: [op, id, parent_id, roles, status, error, body]
    menuReq         \* the menu requests that run at the same time, one per connection: [op, pc (the write that comes next, or done), id, parent_id, status, error]

accessVars == <<routes, apis, map_role_api, roles, boot, access, reconciled, partial>>

authVars == <<now, map_user_role, user_tokens, req, revoked, JWTSecret>>

menuVars == <<menus, map_role_menu, menuResp, menuReq>>

auditVars == <<logins, tasks, login_logs>>

vars == <<routes, apis, map_role_api, roles, boot, access, reconciled, partial,
          now, map_user_role, user_tokens, req, revoked, JWTSecret,
          menus, map_role_menu, menuResp, menuReq, logins, tasks, login_logs>>

\* ------------------------------------------------------------------ bounds

\* Size of the pool of primary keys of table apis (uuid.New() never runs out).
MaxApiRows == 3

\* Most rows of map_role_api.
MaxGrants == 2

\* ------------------------------------------------------------------ data

ApiIds == 1..MaxApiRows

RolesRoute  == <<"/roles/", "GET">>
LogoutRoute == <<"/logout", "POST">>
\* a route of an earlier release, no longer declared
StaleRoute  == <<"/register", "POST">>

RoutePairs == {RolesRoute, LogoutRoute, StaleRoute}

\* The route tables of the two releases of routes.go found in the repository:
\* the earlier one still declares POST /register.
OldRelease == <<StaleRoute, RolesRoute>>
NewRelease == <<RolesRoute, LogoutRoute>>
Releases == {OldRelease, NewRelease}

SeedRoles == {[id |-> 1, name |-> "super_admin"], [id |-> 2, name |-> "ops"]}

\* Role sets of the callers that are tried; "guest" names no row of table roles.
CallerRoleSets == {{}, {"ops"}, {"super_admin"}, {"ops", "guest"}}

NoAccess == [path |-> "", method |-> "", roles |-> {}, fail |-> "none", status |-> 0]

\* ------------------------------------------------------------------ store helpers

Min(S) == CHOOSE x \in S : \A y \in S : x <= y

\* (ApisMatchingMethod: the same query with the path condition left out.)
ApisMatchingMethod(path, method) == {a \in apis : a.method = method}

\* db.Where("path = ? AND method = ?", path, method)
ApisMatching(path, method) == {a \in apis : a.path = path /\ a.method = method}

\* gorm First: ORDER BY id LIMIT 1
First(rows) == CHOOSE a \in rows : \A b \in rows : a.id <= b.id

\* SELECT id FROM roles WHERE name IN ?
RoleIdsNamed(names) == {r.id : r \in {x \in roles : x.name \in names}}

\* db.Table("map_role_api").Where("api_id = ? AND role_id IN (...)").Count(&count)
GrantCount(apiId, names) ==
    Cardinality({m \in map_role_api : m.api_id = apiId /\ m.role_id \in RoleIdsNamed(names)})

\* ------------------------------------------------------------------ APIAccessMiddleware

\* The decision of APIAccessMiddleware for a caller carrying `names` on the route
\* template (path, method); fail names the query that meets a store error.
\* 0 stands for c.Next(): no response is written and the chain goes on.
\* (AccessStatusSwapped: the same with the two refusals exchanged.)
AccessStatusSwapped(path, method, names, fail) ==
    IF fail = "lookup" \/ ApisMatching(path, method) = {} THEN 403
    ELSE IF fail = "count" THEN 500
    ELSE IF GrantCount(First(ApisMatching(path, method)).id, names) = 0 THEN 404
    ELSE 0

AccessStatus(path, method, names, fail) ==
    IF fail = "lookup" \/ ApisMatching(path, method) = {} THEN 404
    ELSE IF fail = "count" THEN 500
    ELSE IF GrantCount(First(ApisMatching(path, method)).id, names) = 0 THEN 403
    ELSE 0

\* A check that can run before SetupRouter has returned (the server started
\* in a goroutine ahead of insertAPIEndpoints).
CheckAccessEarly(path, method, names, fail) ==
    /\ access' = [path |-> path, method |-> method, roles |-> names, fail |-> fail,
                  status |-> AccessStatus(path, method, names, fail)]
    /\ UNCHANGED <<routes, apis, map_role_api, roles, boot, reconciled, partial>>
    /\ UNCHANGED <<authVars, menuVars, auditVars>>

\* APIAccessMiddleware run on its own for one caller and one route, once
\* router.Run serves: main calls it after SetupRouter has returned.
CheckAccess(path, method, names, fail) ==
    /\ boot.i = 0
    /\ access' = [path |-> path, method |-> method, roles |-> names, fail |-> fail,
                  status |-> AccessStatus(path, method, names, fail)]
    /\ UNCHANGED <<routes, apis, map_role_api, roles, boot, reconciled, partial>>
    /\ UNCHANGED <<authVars, menuVars, auditVars>>

\* ------------------------------------------------------------------ insertAPIEndpoints

\* An insert that also drops the rows whose route is not declared any more.
InsertApiPruning(id, path, method) ==
    {a \in apis : \E i \in 1..Len(routes) : routes[i] = <<a.path, a.method>>}
        \cup {[id |-> id, path |-> path, method |-> method]}

\* db.Create(&api): the row gets a primary key no row has (uuid_generate_v4()).
InsertApi(id, path, method) == apis \cup {[id |-> id, path |-> path, method |-> method]}

FreeApiIds == ApiIds \ {a.id : a \in apis}

\* What insertAPIEndpoints decides for one route: insert it or leave the table alone.
Serving == [i |-> 0, clean |-> TRUE]

NotReconciled == [valid |-> FALSE, rows |-> {}, runs |-> 0]

NoPartial == [ins |-> {}, left |-> {}]

RouteMissingAlways(rt) == TRUE

RouteMissing(rt) == ApisMatching(rt[1], rt[2]) = {}

\* What a run leaves behind when it stops over table `rows` having inserted `ins`:
\* with a declared route still without entry, its rows join those of the stopped
\* runs before it.
Stopped(rows, ins) ==
    IF \E i \in 1..Len(routes) : ~\E a \in rows : <<a.path, a.method>> = routes[i]
    THEN partial.left \cup ins
    ELSE {}

\* The end of a run of insertAPIEndpoints: SetupRouter returns the router and
\* main starts serving. A run without store error is remembered in `reconciled`.
EndRun(clean, rows) ==
    /\ boot' = Serving
    /\ partial' = [ins |-> {}, left |-> IF clean THEN partial.left
                                                 ELSE Stopped(rows, rows \ (apis \ partial.ins))]
    /\ reconciled' = IF clean
                     THEN [valid |-> TRUE, rows |-> rows,
                           runs |-> IF reconciled.valid THEN 2 ELSE 1]
                     ELSE NotReconciled

\* One iteration of the loop of insertAPIEndpoints over router.Routes().
\* fail = "lookup": First fails with an error other than ErrRecordNotFound, the
\* route is skipped; fail = "create": db.Create fails, the function returns.
ReconcileStep(fail) ==
    /\ boot.i > 0
    /\ LET rt   == routes[boot.i]
           last == boot.i = Len(routes)
       IN  \/ /\ fail = "none"
              /\ RouteMissing(rt)
              /\ \E id \in FreeApiIds :
                    /\ apis' = InsertApi(id, rt[1], rt[2])
                    /\ IF last THEN EndRun(boot.clean, apis')
                               ELSE /\ boot' = [boot EXCEPT !.i = boot.i + 1]
                                    /\ partial' = [partial EXCEPT !.ins = apis' \ (apis \ @)]
                                    /\ UNCHANGED reconciled
           \/ /\ \/ fail = "none" /\ ~RouteMissing(rt)
                 \/ fail = "lookup"
              /\ apis' = apis
              /\ LET clean == boot.clean /\ fail = "none"
                 IN IF last THEN EndRun(clean, apis)
                            ELSE /\ boot' = [i |-> boot.i + 1, clean |-> clean]
                                 /\ UNCHANGED <<reconciled, partial>>
           \/ /\ fail = "create"
              /\ RouteMissing(rt)
              /\ apis' = apis
              /\ EndRun(FALSE, apis)
    /\ UNCHANGED <<routes, map_role_api, roles, access>>
    /\ UNCHANGED <<authVars, menuVars, auditVars>>

\* The process stops (at any point, also inside insertAPIEndpoints) and a release
\* is started: main calls SetupRouter, which declares the routes and reconciles.
Restart(release) ==
    /\ routes' = release
    /\ boot' = [i |-> 1, clean |-> TRUE]
    /\ reconciled' = IF release = routes /\ boot.i = 0 THEN reconciled ELSE NotReconciled
    /\ partial' = [ins |-> {}, left |-> IF boot.i > 0 THEN Stopped(apis, partial.ins)
                                        ELSE IF reconciled.valid THEN {} ELSE partial.left]
    /\ access' = NoAccess
    /\ UNCHANGED <<apis, map_role_api, roles>>
    /\ UNCHANGED <<authVars, menuVars, auditVars>>

\* ------------------------------------------------------------------ API handlers

\* A handler changed table apis: the store is no longer as reconciliation left it.
Touched == reconciled' = NotReconciled /\ partial' = NoPartial

\* CreateAPI: the bound JSON is inserted as it is; a primary key in use is a
\* store error (500) and nothing else is checked.
CreateAPI(id, path, method) ==
    /\ boot.i = 0
    /\ id \in FreeApiIds
    /\ apis' = InsertApi(id, path, method)
    /\ Touched
    /\ access' = NoAccess
    /\ UNCHANGED <<routes, map_role_api, roles, boot>>
    /\ UNCHANGED <<authVars, menuVars, auditVars>>

\* UpdateAPI: the row is loaded by id, overwritten by the bound JSON and saved.
UpdateAPI(id, path, method) ==
    /\ boot.i = 0
    /\ \E a \in apis :
          /\ a.id = id
          /\ apis' = (apis \ {a}) \cup {[id |-> id, path |-> path, method |-> method]}
    /\ Touched
    /\ access' = NoAccess
    /\ UNCHANGED <<routes, map_role_api, roles, boot>>
    /\ UNCHANGED <<authVars, menuVars, auditVars>>

\* DeleteAPI: DELETE ... WHERE id = ?; the join table's foreign key refuses the
\* delete while a grant names the row (500), no row affected is 404.
DeleteAPI(id) ==
    /\ boot.i = 0
    /\ \E a \in apis : a.id = id
    /\ ~\E m \in map_role_api : m.api_id = id
    /\ apis' = {a \in apis : a.id # id}
    /\ Touched
    /\ access' = NoAccess
    /\ UNCHANGED <<routes, map_role_api, roles, boot>>
    /\ UNCHANGED <<authVars, menuVars, auditVars>>

\* AssignAPIToRole: both rows must exist; Association("Roles").Append adds the grant.
AssignAPIToRole(apiId, roleId) ==
    /\ boot.i = 0
    /\ \E a \in apis : a.id = apiId
    /\ \E r \in roles : r.id = roleId
    /\ Cardinality(map_role_api) < MaxGrants
    /\ map_role_api' = map_role_api \cup {[role_id |-> roleId, api_id |-> apiId]}
    /\ access' = NoAccess
    /\ UNCHANGED <<routes, apis, roles, boot, reconciled, partial>>
    /\ UNCHANGED <<authVars, menuVars, auditVars>>

\* RemoveAPIFromRole: both rows must exist; Association("Roles").Delete drops the grant.
RemoveAPIFromRole(apiId, roleId) ==
    /\ boot.i = 0
    /\ \E a \in apis : a.id = apiId
    /\ \E r \in roles : r.id = roleId
    /\ map_role_api' = map_role_api \ {[role_id |-> roleId, api_id |-> apiId]}
    /\ access' = NoAccess
    /\ UNCHANGED <<routes, apis, roles, boot, reconciled, partial>>
    /\ UNCHANGED <<authVars, menuVars, auditVars>>

\* The route of AssignAPIToRole, as c.FullPath() gives it.
AssignRoute == <<"/api-assignments/apis/:api_id/roles/:role_id", "POST">>

\* (AssignAPIToRoleUngated: the handler on a route outside the protected group.)
AssignAPIToRoleUngated(names, apiId, roleId) == AssignAPIToRole(apiId, roleId)

\* A request on the route of AssignAPIToRole by a caller carrying `names`: the
\* handler runs when APIAccessMiddleware has let the request through.
AssignAPIToRoleRequest(names, apiId, roleId) ==
    /\ AccessStatus(AssignRoute[1], AssignRoute[2], names, "none") = 0
    /\ AssignAPIToRole(apiId, roleId)

\* The SQL script that grants super_admin every row of table apis; an operator
\* runs it against the store by hand, the program never does. ON CONFLICT DO
\* NOTHING: the grants that exist stay.
SeedSuperAdminGrants ==
    /\ map_role_api' = map_role_api \cup
                            {[role_id |-> r.id, api_id |-> a.id] :
                                 r \in {x \in roles : x.name = "super_admin"}, a \in apis}
    /\ map_role_api' # map_role_api
    /\ Cardinality(map_role_api') <= MaxGrants
    /\ access' = NoAccess
    /\ UNCHANGED <<routes, apis, roles, boot, reconciled, partial>>
    /\ UNCHANGED <<authVars, menuVars, auditVars>>

\* ------------------------------------------------------------------ time and tokens

\* The lifetime GenerateToken and SaveTokenToDB both add to time.Now(): 24 hours,
\* here 2 ticks.
TokenTTL == 2

\* jwt.NewNumericDate truncates to jwt.TimePrecision (one second): here 2 ticks.
TimePrecision == 2

\* Most rows of user_tokens, and the last tick of the clock.
MaxTokens == 2
MaxTime == 3

Users == {"u1", "u2"}

SeedUserRoles == {[user_id |-> "u1", role_id |-> 1], [user_id |-> "u2", role_id |-> 2]}

NumericDate(t) == t - (t % TimePrecision)

\* Preload("Roles") of a user, as Login collects the names.
RoleNamesOf(u) ==
    {r.name : r \in {x \in roles : [user_id |-> u, role_id |-> x.id] \in map_user_role}}

\* GenerateToken: the signed string is determined by its claims; two tokens with
\* the same claims are the same string. signed: the HS256 signature is JWTSecret's.
\* json is how claim "roles" is encoded: Login hands over the names it appended
\* to a nil slice, which is still nil (null in JSON) when the user has no role.
GenerateToken(u, names) ==
    [user_id |-> u, roles |-> names, iat |-> NumericDate(now),
     exp |-> NumericDate(now + TokenTTL), signed |-> TRUE,
     json |-> IF names = {} THEN "null" ELSE "names"]

\* A token with the claims of a super_admin and a signature that is not JWTSecret's.
ForgedToken ==
    [user_id |-> "u1", roles |-> {"super_admin"}, iat |-> 0, exp |-> NumericDate(MaxTime) + TokenTTL,
     signed |-> FALSE, json |-> "names"]

\* The token registerUser returned to u2 at tick 0: GenerateToken with the
\* empty slice []string{} ([] in JSON), signed; registerUser does not save it.
RegisterToken ==
    [user_id |-> "u2", roles |-> {}, iat |-> 0, exp |-> TokenTTL, signed |-> TRUE, json |-> "[]"]

TokenIds == 1..Len(user_tokens)

\* The token strings a client may present.
PresentedTokens == {user_tokens[i].token : i \in TokenIds} \cup {ForgedToken, RegisterToken}

NoToken == [user_id |-> "", roles |-> {}, iat |-> 0, exp |-> 0, signed |-> FALSE, json |-> ""]

\* The Authorization header: absent, not of the form "Bearer <token>", or a bearer token.
NoHeader == [kind |-> "none", token |-> NoToken]
BadHeader == [kind |-> "malformed", token |-> NoToken]
Bearer(t) == [kind |-> "bearer", token |-> t]

\* ------------------------------------------------------------------ SaveTokenToDB, ValidateTokenFromDB

\* SaveTokenToDB: column token is unique, so a second row with the same string is
\* refused by the store.
SaveTokenToDBUpsert(u, t) ==
    IF \E i \in TokenIds : user_tokens[i].token = t
    THEN [ok |-> TRUE,
          rows |-> [i \in TokenIds |->
                      IF user_tokens[i].token = t
                      THEN [user_id |-> u, token |-> t, expires_at |-> now + TokenTTL, is_active |-> TRUE]
                      ELSE user_tokens[i]]]
    ELSE [ok |-> TRUE,
          rows |-> Append(user_tokens, [user_id |-> u, token |-> t,
                                        expires_at |-> now + TokenTTL, is_active |-> TRUE])]

SaveTokenToDB(u, t) ==
    IF \E i \in TokenIds : user_tokens[i].token = t
    THEN [ok |-> FALSE, rows |-> user_tokens]
    ELSE [ok |-> TRUE,
          rows |-> Append(user_tokens, [user_id |-> u, token |-> t,
                                        expires_at |-> now + TokenTTL, is_active |-> TRUE])]

\* ValidateTokenFromDB: WHERE token = ? AND is_active = true AND expires_at > now,
\* First; the ids of the rows found (none: an error, whatever the reason).
ValidateTokenFromDBAnyRow(t) == {i \in TokenIds : user_tokens[i].token = t /\ user_tokens[i].expires_at > now}

ValidateTokenFromDB(t) ==
    {i \in TokenIds : /\ user_tokens[i].token = t
                      /\ user_tokens[i].is_active
                      /\ user_tokens[i].expires_at > now}

\* jwt.ParseWithClaims with the HMAC key function: the signature is JWTSecret's
\* and the embedded expiry has not passed.
ParseWithClaims(t) == t.signed /\ now < t.exp

\* ------------------------------------------------------------------ AuthMiddleware

NoCtx == [set |-> FALSE, user_id |-> "", roles |-> {}, token_id |-> 0]

\* AuthMiddleware on one Authorization header: the checks made, in order, the
\* status written (0: none, c.Next()) and the context values set.
\* fail = "lookup": the session query meets a store error.
\* The refusals of AuthMiddleware before it looks at the token.
HeaderError(header) ==
    IF header.kind = "none" THEN "Authorization header is required" ELSE "Invalid token format"

AuthMiddlewareVerifyFirst(header, fail) ==
    IF header.kind # "bearer"
    THEN [status |-> 401, error |-> HeaderError(header), checks |-> <<"header">>, ctx |-> NoCtx]
    ELSE IF ~ParseWithClaims(header.token)
    THEN [status |-> 401, error |-> "Invalid or expired token", checks |-> <<"header", "signature">>, ctx |-> NoCtx]
    ELSE IF fail = "lookup" \/ ValidateTokenFromDB(header.token) = {}
    THEN [status |-> 401, error |-> "Token not found or expired", checks |-> <<"header", "signature", "registry">>, ctx |-> NoCtx]
    ELSE [status |-> 0, error |-> "", checks |-> <<"header", "signature", "registry">>,
          ctx |-> [set |-> TRUE, user_id |-> header.token.user_id,
                   roles |-> header.token.roles,
                   token_id |-> Min(ValidateTokenFromDB(header.token))]]

\* A gate that tells the client when the row of its token was deactivated.
AuthMiddlewareTellsRevoked(header, fail) ==
    IF header.kind # "bearer"
    THEN [status |-> 401, error |-> HeaderError(header), checks |-> <<"header">>, ctx |-> NoCtx]
    ELSE IF fail = "lookup" \/ ValidateTokenFromDB(header.token) = {}
    THEN [status |-> 401,
          error |-> IF \E i \in TokenIds : user_tokens[i].token = header.token /\ ~user_tokens[i].is_active
                    THEN "Token revoked" ELSE "Token not found or expired",
          checks |-> <<"header", "registry">>, ctx |-> NoCtx]
    ELSE IF ~ParseWithClaims(header.token)
    THEN [status |-> 401, error |-> "Invalid or expired token", checks |-> <<"header", "registry", "signature">>, ctx |-> NoCtx]
    ELSE [status |-> 0, error |-> "", checks |-> <<"header", "registry", "signature">>,
          ctx |-> [set |-> TRUE, user_id |-> header.token.user_id,
                   roles |-> header.token.roles,
                   token_id |-> Min(ValidateTokenFromDB(header.token))]]

\* A gate that lets the request through on the claims of the token when the
\* session lookup fails with a store error.
AuthMiddlewareFailOpen(header, fail) ==
    IF header.kind # "bearer"
    THEN [status |-> 401, error |-> HeaderError(header), checks |-> <<"header">>, ctx |-> NoCtx]
    ELSE IF fail # "lookup" /\ ValidateTokenFromDB(header.token) = {}
    THEN [status |-> 401, error |-> "Token not found or expired", checks |-> <<"header", "registry">>, ctx |-> NoCtx]
    ELSE IF ~ParseWithClaims(header.token)
    THEN [status |-> 401, error |-> "Invalid or expired token", checks |-> <<"header", "registry", "signature">>, ctx |-> NoCtx]
    ELSE [status |-> 0, error |-> "", checks |-> <<"header", "registry", "signature">>,
          ctx |-> [set |-> TRUE, user_id |-> header.token.user_id,
                   roles |-> header.token.roles,
                   token_id |-> IF fail = "lookup" THEN 0
                                ELSE Min(ValidateTokenFromDB(header.token))]]

\* A gate that loads the user's roles from the store at every request.
AuthMiddlewareCurrentRoles(header, fail) ==
    IF header.kind # "bearer"
    THEN [status |-> 401, error |-> HeaderError(header), checks |-> <<"header">>, ctx |-> NoCtx]
    ELSE IF fail = "lookup" \/ ValidateTokenFromDB(header.token) = {}
    THEN [status |-> 401, error |-> "Token not found or expired", checks |-> <<"header", "registry">>, ctx |-> NoCtx]
    ELSE IF ~ParseWithClaims(header.token)
    THEN [status |-> 401, error |-> "Invalid or expired token", checks |-> <<"header", "registry", "signature">>, ctx |-> NoCtx]
    ELSE [status |-> 0, error |-> "", checks |-> <<"header", "registry", "signature">>,
          ctx |-> [set |-> TRUE, user_id |-> header.token.user_id,
                   roles |-> RoleNamesOf(header.token.user_id),
                   token_id |-> Min(ValidateTokenFromDB(header.token))]]

\* A gate that trusts the signature alone and does not ask the session store.
AuthMiddlewareSignatureOnly(header, fail) ==
    IF header.kind # "bearer"
    THEN [status |-> 401, error |-> HeaderError(header), checks |-> <<"header">>, ctx |-> NoCtx]
    ELSE IF ~ParseWithClaims(header.token)
    THEN [status |-> 401, error |-> "Invalid or expired token", checks |-> <<"header", "signature">>, ctx |-> NoCtx]
    ELSE [status |-> 0, error |-> "", checks |-> <<"header", "signature">>,
          ctx |-> [set |-> TRUE, user_id |-> header.token.user_id,
                   roles |-> header.token.roles,
                   token_id |-> IF ValidateTokenFromDB(header.token) = {} THEN 0
                                ELSE Min(ValidateTokenFromDB(header.token))]]

AuthMiddleware(header, fail) ==
    IF header.kind # "bearer"
    THEN [status |-> 401, error |-> HeaderError(header), checks |-> <<"header">>, ctx |-> NoCtx]
    ELSE IF fail = "lookup" \/ ValidateTokenFromDB(header.token) = {}
    THEN [status |-> 401, error |-> "Token not found or expired", checks |-> <<"header", "registry">>, ctx |-> NoCtx]
    ELSE IF ~ParseWithClaims(header.token)
    THEN [status |-> 401, error |-> "Invalid or expired token", checks |-> <<"header", "registry", "signature">>, ctx |-> NoCtx]
    ELSE [status |-> 0, error |-> "", checks |-> <<"header", "registry", "signature">>,
          ctx |-> [set |-> TRUE, user_id |-> header.token.user_id,
                   roles |-> header.token.roles,
                   token_id |-> Min(ValidateTokenFromDB(header.token))]]

\* ------------------------------------------------------------------ the chain of a protected route

RevokeTokenRoute == <<"/tokens/:id", "DELETE">>
RevokeAllRoute   == <<"/tokens/revoke-all", "POST">>
UserMenusRoute   == <<"/menus/user", "GET">>

\* The protected routes that requests are made on.
ProtectedRoutes == {LogoutRoute, RevokeTokenRoute, RevokeAllRoute, RolesRoute, UserMenusRoute}

\* A request: pc is the handler of the chain [AuthMiddleware, APIAccessMiddleware,
\* handler] that runs next; ran lists the handlers that ran, checks the checks
\* AuthMiddleware made, responses counts the c.JSON calls, status is the status
\* the client gets (the first one written), error the gin.H{"error": ...} a
\* middleware wrote with it ("": none).
IdleReq ==
    [pc |-> "idle", route |-> <<"", "">>, header |-> NoHeader, id |-> 0, ctx |-> NoCtx,
     status |-> 0, error |-> "", responses |-> 0, ran |-> <<>>, checks |-> <<>>]

\* c.JSON(status, ...)
WriteJSON(rq, status) ==
    [rq EXCEPT !.status = IF rq.responses = 0 THEN status ELSE @,
               !.responses = @ + 1]

\* Every refusal of the two middlewares is c.JSON; c.Abort(); return.
AbortedNever(status) == FALSE

Aborted(status) == status # 0

\* What gin does when a handler of the chain returns: the next handler, unless
\* the chain was aborted.
Continue(rq, status, stage, next) ==
    LET written == IF status = 0 THEN rq ELSE WriteJSON(rq, status)
    IN  [written EXCEPT !.ran = Append(@, stage),
                        !.pc = IF Aborted(status) THEN "done" ELSE next]

\* A client sends a request on a protected route.
NewRequest(r, route, header, id) ==
    /\ boot.i = 0
    /\ req[r].pc \in {"idle", "done"}
    /\ id # 0 => route = RevokeTokenRoute
    /\ req' = [req EXCEPT ![r] = [IdleReq EXCEPT !.pc = "auth", !.route = route,
                                                 !.header = header, !.id = id]]
    /\ UNCHANGED <<now, map_user_role, user_tokens, revoked>>
    /\ UNCHANGED <<accessVars, menuVars, auditVars, JWTSecret>>

\* The gin.H{"error": ...} of the refusals of APIAccessMiddleware.
AccessError(status) ==
    IF status = 401 THEN "User roles not found"
    ELSE IF status = 404 THEN "API not found"
    ELSE IF status = 500 THEN "Failed to check API access"
    ELSE IF status = 403 THEN "You don't have permission to access this API"
    ELSE ""

\* AuthMiddleware runs for request r.
AuthStage(r, fail) ==
    /\ req[r].pc = "auth"
    /\ LET out == AuthMiddleware(req[r].header, fail)
       IN  req' = [req EXCEPT ![r] =
                     Continue([@ EXCEPT !.ctx = out.ctx, !.checks = out.checks,
                                        !.error = out.error],
                              out.status, "auth", "access")]
    /\ UNCHANGED <<now, map_user_role, user_tokens, revoked>>
    /\ UNCHANGED <<accessVars, menuVars, auditVars, JWTSecret>>

\* An APIAccessMiddleware that looks the session up again before it decides.
AccessStageRecheck(r, fail) ==
    /\ req[r].pc = "access"
    /\ LET rq == req[r]
           status == IF ~rq.ctx.set \/ ValidateTokenFromDB(rq.header.token) = {} THEN 401
                     ELSE AccessStatus(rq.route[1], rq.route[2], rq.ctx.roles, fail)
       IN  req' = [req EXCEPT ![r] = Continue([rq EXCEPT !.error = AccessError(status)],
                                              status, "access", "handler")]
    /\ UNCHANGED <<now, map_user_role, user_tokens, revoked>>
    /\ UNCHANGED <<accessVars, menuVars, auditVars, JWTSecret>>

\* APIAccessMiddleware runs for request r: 401 when the context holds no roles,
\* else the decision on c.FullPath() and the method.
AccessStage(r, fail) ==
    /\ req[r].pc = "access"
    /\ LET rq == req[r]
           status == IF ~rq.ctx.set THEN 401
                     ELSE AccessStatus(rq.route[1], rq.route[2], rq.ctx.roles, fail)
       IN  req' = [req EXCEPT ![r] = Continue([rq EXCEPT !.error = AccessError(status)],
                                              status, "access", "handler")]
    /\ UNCHANGED <<now, map_user_role, user_tokens, revoked>>
    /\ UNCHANGED <<accessVars, menuVars, auditVars, JWTSecret>>

\* The end of the chain: the business handler has written its response.
Handled(rq, status) ==
    [WriteJSON(rq, status) EXCEPT !.ran = Append(@, "handler"), !.pc = "done"]

\* UPDATE user_tokens SET is_active = false WHERE id IN ids
Deactivate(ids) ==
    [i \in TokenIds |-> IF i \in ids THEN [user_tokens[i] EXCEPT !.is_active = FALSE]
                                     ELSE user_tokens[i]]

\* A logout that ends every session of the user of the row in the context.
LogoutEverySession(r) ==
    /\ req[r].pc = "handler"
    /\ req[r].route = LogoutRoute
    /\ LET rq == req[r]
           ids == {i \in TokenIds : user_tokens[i].user_id = rq.ctx.user_id}
       IN  IF ~rq.ctx.set
           THEN /\ req' = [req EXCEPT ![r] = Handled(rq, 401)]
                /\ UNCHANGED <<user_tokens, revoked>>
           ELSE /\ user_tokens' = Deactivate(ids)
                /\ revoked' = revoked \cup {user_tokens[i].token : i \in ids}
                /\ req' = [req EXCEPT ![r] = Handled(rq, 200)]
    /\ UNCHANGED <<now, map_user_role>>
    /\ UNCHANGED <<accessVars, menuVars, auditVars, JWTSecret>>

\* Logout: deactivates the row whose id AuthMiddleware put in the context.
Logout(r) ==
    /\ req[r].pc = "handler"
    /\ req[r].route = LogoutRoute
    /\ LET rq == req[r]
       IN  IF ~rq.ctx.set
           THEN /\ req' = [req EXCEPT ![r] = Handled(rq, 401)]
                /\ UNCHANGED <<user_tokens, revoked>>
           ELSE /\ user_tokens' = Deactivate({rq.ctx.token_id})
                /\ revoked' = revoked \cup {user_tokens[rq.ctx.token_id].token}
                /\ req' = [req EXCEPT ![r] = Handled(rq, 200)]
    /\ UNCHANGED <<now, map_user_role>>
    /\ UNCHANGED <<accessVars, menuVars, auditVars, JWTSecret>>

\* A RevokeToken whose lookup takes active rows only.
RevokeTokenActiveOnly(r) ==
    /\ req[r].pc = "handler"
    /\ req[r].route = RevokeTokenRoute
    /\ LET rq == req[r]
       IN  IF ~rq.ctx.set
           THEN /\ req' = [req EXCEPT ![r] = Handled(rq, 401)]
                /\ UNCHANGED <<user_tokens, revoked>>
           ELSE IF /\ rq.id \in TokenIds
                   /\ user_tokens[rq.id].user_id = rq.ctx.user_id
                   /\ user_tokens[rq.id].is_active
           THEN /\ user_tokens' = Deactivate({rq.id})
                /\ revoked' = revoked \cup {user_tokens[rq.id].token}
                /\ req' = [req EXCEPT ![r] = Handled(rq, 200)]
           ELSE /\ req' = [req EXCEPT ![r] = Handled(rq, 404)]
                /\ UNCHANGED <<user_tokens, revoked>>
    /\ UNCHANGED <<now, map_user_role>>
    /\ UNCHANGED <<accessVars, menuVars, auditVars, JWTSecret>>

\* A RevokeToken whose lookup is by id alone.
RevokeTokenAnyOwner(r) ==
    /\ req[r].pc = "handler"
    /\ req[r].route = RevokeTokenRoute
    /\ LET rq == req[r]
       IN  IF ~rq.ctx.set
           THEN /\ req' = [req EXCEPT ![r] = Handled(rq, 401)]
                /\ UNCHANGED <<user_tokens, revoked>>
           ELSE IF rq.id \in TokenIds
           THEN /\ user_tokens' = Deactivate({rq.id})
                /\ revoked' = revoked \cup {user_tokens[rq.id].token}
                /\ req' = [req EXCEPT ![r] = Handled(rq, 200)]
           ELSE /\ req' = [req EXCEPT ![r] = Handled(rq, 404)]
                /\ UNCHANGED <<user_tokens, revoked>>
    /\ UNCHANGED <<now, map_user_role>>
    /\ UNCHANGED <<accessVars, menuVars, auditVars, JWTSecret>>

\* RevokeToken: the row named by :id, if it is the caller's; 404 otherwise.
RevokeToken(r) ==
    /\ req[r].pc = "handler"
    /\ req[r].route = RevokeTokenRoute
    /\ LET rq == req[r]
       IN  IF ~rq.ctx.set
           THEN /\ req' = [req EXCEPT ![r] = Handled(rq, 401)]
                /\ UNCHANGED <<user_tokens, revoked>>
           ELSE IF rq.id \in TokenIds /\ user_tokens[rq.id].user_id = rq.ctx.user_id
           THEN /\ user_tokens' = Deactivate({rq.id})
                /\ revoked' = revoked \cup {user_tokens[rq.id].token}
                /\ req' = [req EXCEPT ![r] = Handled(rq, 200)]
           ELSE /\ req' = [req EXCEPT ![r] = Handled(rq, 404)]
                /\ UNCHANGED <<user_tokens, revoked>>
    /\ UNCHANGED <<now, map_user_role>>
    /\ UNCHANGED <<accessVars, menuVars, auditVars, JWTSecret>>

\* The rows one UPDATE ... WHERE user_id = ? reaches.
RowsOfFirstOnly(u) ==
    IF {i \in TokenIds : user_tokens[i].user_id = u} = {} THEN {}
    ELSE {Min({i \in TokenIds : user_tokens[i].user_id = u})}

\* (RowsOfEveryUser: an UPDATE without its WHERE clause.)
RowsOfEveryUser(u) == TokenIds

RowsOf(u) == {i \in TokenIds : user_tokens[i].user_id = u}

\* RevokeAllTokens: deactivates every row of the caller in one statement.
RevokeAllTokens(r) ==
    /\ req[r].pc = "handler"
    /\ req[r].route = RevokeAllRoute
    /\ LET rq == req[r]
       IN  IF ~rq.ctx.set
           THEN /\ req' = [req EXCEPT ![r] = Handled(rq, 401)]
                /\ UNCHANGED <<user_tokens, revoked>>
           ELSE /\ user_tokens' = Deactivate(RowsOf(rq.ctx.user_id))
                /\ revoked' = revoked \cup {user_tokens[i].token : i \in RowsOf(rq.ctx.user_id)}
                /\ req' = [req EXCEPT ![r] = Handled(rq, 200)]
    /\ UNCHANGED <<now, map_user_role>>
    /\ UNCHANGED <<accessVars, menuVars, auditVars, JWTSecret>>

\* A handler that reads (GetRoles): 200, nothing is written to the session
\* store.
ReadHandler(r) ==
    /\ req[r].pc = "handler"
    /\ req[r].route = RolesRoute
    /\ req' = [req EXCEPT ![r] = Handled(req[r], 200)]
    /\ UNCHANGED <<now, map_user_role, user_tokens, revoked>>
    /\ UNCHANGED <<accessVars, menuVars, auditVars, JWTSecret>>

\* ------------------------------------------------------------------ Login and its audit log

\* Most Login attempts of a run.
MaxLogins == 2

\* The logins a client may send: the usernames of the two users and one that
\* names no user.
LoginNames == Users \cup {"nobody"}

\* Where Login returns. bound: ShouldBindJSON succeeded; password: the bcrypt
\* comparison succeeded; fault: the store query that meets an error ("find":
\* the user lookup, "save": the Create of SaveTokenToDB).
LoginPath(login, bound, password, fault) ==
    IF ~bound THEN "bind"
    ELSE IF fault = "find" THEN "dberror"
    ELSE IF login \notin Users THEN "notfound"
    ELSE IF ~password THEN "password"
    ELSE IF fault = "save" \/ ~SaveTokenToDB(login, GenerateToken(login, RoleNamesOf(login))).ok
         THEN "tokensave"
    ELSE "ok"

\* The response Login writes with c.JSON on each path.
LoginStatus(path) ==
    CASE path = "bind"      -> 400
      [] path = "notfound"  -> 401
      [] path = "password"  -> 401
      [] path = "dberror"   -> 500
      [] path = "tokensave" -> 500
      [] path = "ok"        -> 200

LoginError(path) ==
    CASE path = "bind"      -> "bind"
      [] path = "notfound"  -> "Invalid credentials"
      [] path = "password"  -> "Invalid credentials"
      [] path = "dberror"   -> "Failed to find user"
      [] path = "tokensave" -> "Failed to save token"
      [] path = "ok"        -> ""

\* The row saveLoginLog builds: the user is known once the lookup found it.
LoginLog(login, path) ==
    [user_id |-> IF path \in {"password", "tokensave", "ok"} THEN login ELSE "",
     status  |-> IF path = "ok" THEN "SUCCESS" ELSE "FAILED",
     message |-> CASE path = "bind"      -> "Invalid request format"
                   [] path = "notfound"  -> "User not found"
                   [] path = "dberror"   -> "Database error"
                   [] path = "password"  -> "Invalid password"
                   [] path = "tokensave" -> "Failed to save token"
                   [] path = "ok"        -> "Login successful"]

\* saveLoginLog: builds the row and starts one goroutine that will write it.
saveLoginLog(attempt, login, path) ==
    [attempt |-> attempt, log |-> LoginLog(login, path), state |-> "pending"]

\* A Login whose token-save branch does not return: it goes on to the success
\* branch and logs a second time.
LoginAuditFallThrough(attempt, login, path) ==
    IF path = "tokensave"
    THEN <<saveLoginLog(attempt, login, path), saveLoginLog(attempt, login, "ok")>>
    ELSE <<saveLoginLog(attempt, login, path)>>

\* The goroutines Login starts on a path: every path calls saveLoginLog once,
\* right before its c.JSON.
LoginAudit(attempt, login, path) == <<saveLoginLog(attempt, login, path)>>

\* Login's local variable token: the string GenerateToken returned, once Login
\* has come that far.
LoginToken(login, path) ==
    IF path \in {"tokensave", "ok"} THEN GenerateToken(login, RoleNamesOf(login)) ELSE NoToken

\* The attempt once c.JSON has written the response.
Responded(a) ==
    [a EXCEPT !.pc = "done", !.status = LoginStatus(a.path), !.error = LoginError(a.path),
              !.token = (a.path = "ok")]

\* Login up to and including its call of saveLoginLog; on the success path the
\* token has been generated and saved.
LoginBegin(login, bound, password, fault) ==
    /\ boot.i = 0
    /\ Len(logins) < MaxLogins
    /\ LET path == LoginPath(login, bound, password, fault)
           k    == Len(logins) + 1
       IN  /\ path = "ok" => Len(user_tokens) < MaxTokens
           /\ logins' = Append(logins, [login |-> login, path |-> path, pc |-> "respond",
                                        status |-> 0, error |-> "", token |-> FALSE,
                                        jwt |-> LoginToken(login, path)])
           /\ tasks' = tasks \o LoginAudit(k, login, path)
           /\ user_tokens' = IF path = "ok"
                             THEN SaveTokenToDB(login, GenerateToken(login, RoleNamesOf(login))).rows
                             ELSE user_tokens
    /\ UNCHANGED login_logs
    /\ UNCHANGED <<now, map_user_role, req, revoked>>
    /\ UNCHANGED <<accessVars, menuVars, JWTSecret>>

\* Login with valid credentials in the steps its store queries cut it into.
\* LoginFind: the request is bound and the user is loaded with its roles.
LoginFind(login) ==
    /\ boot.i = 0
    /\ Len(logins) < MaxLogins
    /\ LoginPath(login, TRUE, TRUE, "none") \in {"tokensave", "ok"}
    /\ logins' = Append(logins, [login |-> login, path |-> "", pc |-> "save",
                                 status |-> 0, error |-> "", token |-> FALSE, jwt |-> NoToken])
    /\ UNCHANGED <<tasks, login_logs>>
    /\ UNCHANGED <<now, map_user_role, user_tokens, req, revoked>>
    /\ UNCHANGED <<accessVars, menuVars, JWTSecret>>

\* LoginSave: the password is compared, the token generated, SaveTokenToDB
\* creates the row and saveLoginLog starts the audit goroutine.
LoginSave(k, fault) ==
    /\ k \in DOMAIN logins
    /\ logins[k].pc = "save"
    /\ LET login == logins[k].login
           path  == LoginPath(login, TRUE, TRUE, fault)
       IN  /\ path = "ok" => Len(user_tokens) < MaxTokens
           /\ logins' = [logins EXCEPT ![k].path = path, ![k].pc = "respond",
                                       ![k].jwt = LoginToken(login, path)]
           /\ tasks' = tasks \o LoginAudit(k, login, path)
           /\ user_tokens' = IF path = "ok"
                             THEN SaveTokenToDB(login, GenerateToken(login, RoleNamesOf(login))).rows
                             ELSE user_tokens
    /\ UNCHANGED login_logs
    /\ UNCHANGED <<now, map_user_role, req, revoked>>
    /\ UNCHANGED <<accessVars, menuVars, JWTSecret>>

\* The c.JSON that ends Login.
LoginRespond(k) ==
    /\ k \in DOMAIN logins
    /\ logins[k].pc = "respond"
    /\ logins' = [logins EXCEPT ![k] = Responded(@)]
    /\ UNCHANGED <<tasks, login_logs>>
    /\ UNCHANGED <<now, map_user_role, user_tokens, req, revoked>>
    /\ UNCHANGED <<accessVars, menuVars, JWTSecret>>

\* The goroutine of saveLoginLog: database.DB.Create(&loginLog); an error is
\* printed and dropped.
AuditWrite(t, ok) ==
    /\ t \in DOMAIN tasks
    /\ tasks[t].state = "pending"
    /\ tasks' = [tasks EXCEPT ![t].state = IF ok THEN "written" ELSE "failed"]
    /\ login_logs' = IF ok
                     THEN login_logs \cup {[id |-> t, attempt |-> tasks[t].attempt,
                                            user_id |-> tasks[t].log.user_id,
                                            status |-> tasks[t].log.status,
                                            message |-> tasks[t].log.message]}
                     ELSE login_logs
    /\ UNCHANGED logins
    /\ UNCHANGED <<now, map_user_role, user_tokens, req, revoked>>
    /\ UNCHANGED <<accessVars, menuVars, JWTSecret>>

\* Login with valid credentials, from its first line to its response: the token
\* is generated from the user's current roles and saved, the audit goroutine is
\* started and 200 is answered with the token.
Login(u) ==
    /\ boot.i = 0
    /\ Len(user_tokens) < MaxTokens
    /\ LoginPath(u, TRUE, TRUE, "none") = "ok"
    /\ user_tokens' = SaveTokenToDB(u, GenerateToken(u, RoleNamesOf(u))).rows
    /\ logins' = Append(logins, Responded([login |-> u, path |-> "ok", pc |-> "respond",
                                           status |-> 0, error |-> "", token |-> FALSE,
                                           jwt |-> LoginToken(u, "ok")]))
    /\ tasks' = tasks \o LoginAudit(Len(logins) + 1, u, "ok")
    /\ UNCHANGED login_logs
    /\ UNCHANGED <<now, map_user_role, req, revoked>>
    /\ UNCHANGED <<accessVars, menuVars, JWTSecret>>

\* The tokens Login has handed to a client: a client holds no other token of a
\* session row.
IssuedTokens == {logins[k].jwt : k \in {j \in DOMAIN logins : logins[j].pc = "done" /\ logins[j].token}}

\* Time passes.
Tick ==
    /\ now < MaxTime
    /\ now' = now + 1
    /\ UNCHANGED <<map_user_role, user_tokens, req, revoked>>
    /\ UNCHANGED <<accessVars, menuVars, auditVars, JWTSecret>>

\* No Login attempt yet.
AuditIdle ==
    /\ logins = <<>>
    /\ tasks = <<>>
    /\ login_logs = {}

\* os.Getenv("JWT_SECRET") when the package variables are initialized, before
\* main runs: "" when the variable is unset or empty (a JWT_SECRET that is
\* only in the .env file is loaded later, by InitDB, and is not seen).
EnvSecrets == {"", "k"}

\* The session store and the connections before the first login, in a process
\* started with JWT_SECRET set in its environment.
AuthIdle ==
    /\ JWTSecret = "k"
    /\ now = 0
    /\ map_user_role = SeedUserRoles
    /\ user_tokens = <<>>
    /\ req = [r \in {1} |-> IdleReq]
    /\ revoked = {}
    /\ AuditIdle

\* ------------------------------------------------------------------ the menu tree

\* Size of the pool of primary keys of table menus.
MaxMenus == 3

\* Largest number of rows of map_role_menu.
MaxMenuGrants == 2

MenuIds == 1..MaxMenus

\* A nil ParentID of a request, a NULL parent_id of a row.
NoParent == 0

\* The exit status of a Go process that dies of a fatal error (here: the
\* goroutine stack exceeds its limit); gin's Recovery does not catch it.
Fatal == 2

\* Before the first menu request, and after the process has been started again.
NoMenuResp ==
    [op |-> "none", id |-> 0, parent_id |-> NoParent, roles |-> {},
     status |-> 0, error |-> "", body |-> {}]

\* The connections menu requests run on at the same time.
MenuSlots == {1, 2}

\* A connection without a request.
IdleMenuReq ==
    [op |-> "none", pc |-> "idle", id |-> 0, parent_id |-> NoParent, status |-> 0, error |-> ""]

NoMenuReq == [s \in MenuSlots |-> IdleMenuReq]

\* c.JSON(status, ...) of handler op: error is gin.H{"error": ...}, body the
\* MenuResponse values.  id and parent_id are those of an UpdateMenu request,
\* roles the caller's role names of a GetUserMenus request.
MenuJSON(op, status, error, body) ==
    [op |-> op, id |-> 0, parent_id |-> NoParent, roles |-> {},
     status |-> status, error |-> error, body |-> body]

\* DB.First(&menu, "id = ?", id): no row, or the one row of that primary key.
MenuRows(id) == {m \in menus : m.id = id}

\* uuid.New(): a key no row has.
FreeMenuIds == MenuIds \ {m.id : m \in menus}

\* The MenuResponse CreateMenu and UpdateMenu answer with: no children, no roles.
MenuResponse(menu) ==
    [id |-> menu.id, parent_id |-> menu.parent_id, is_active |-> menu.is_active,
     children |-> {}, roles |-> {}]

\* The walk of isCircularReference up the parent pointers, from the row
\* parentID.  loaded are the rows the walk has loaded: when the next row is
\* one of them the store sends the walk round for ever ("diverges"), since
\* none of them was menuID.
RECURSIVE CircularWalk(_, _, _)
CircularWalk(parentID, menuID, loaded) ==
    IF MenuRows(parentID) = {} THEN "false"
    ELSE LET menu == CHOOSE m \in MenuRows(parentID) : TRUE IN
         IF menu.parent_id = NoParent THEN "false"
         ELSE IF menu.parent_id = menuID THEN "true"
         ELSE IF menu.parent_id \in loaded \cup {parentID} THEN "diverges"
         ELSE CircularWalk(menu.parent_id, menuID, loaded \cup {parentID})

\* A cycle check that looks at the candidate parent's own parent only.
isCircularReferenceDirect(parentID, menuID) ==
    IF \E m \in MenuRows(parentID) : m.parent_id = menuID THEN "true" ELSE "false"

isCircularReference(parentID, menuID) == CircularWalk(parentID, menuID, {})

CreateMenu(id, parent_id, is_active) ==
    /\ menuResp.status # Fatal
    /\ id \in FreeMenuIds
    /\ LET menu == [id |-> id, parent_id |-> parent_id, is_active |-> is_active] IN
       IF parent_id # NoParent /\ MenuRows(parent_id) = {}
       THEN /\ menuResp' = MenuJSON("CreateMenu", 400, "Parent menu not found", {})
            /\ UNCHANGED menus
       ELSE /\ menus' = menus \cup {menu}
            /\ menuResp' = MenuJSON("CreateMenu", 201, "", {MenuResponse(menu)})
    /\ UNCHANGED map_role_menu
    /\ UNCHANGED menuReq
    /\ UNCHANGED <<accessVars, authVars, auditVars>>

\* The answer of UpdateMenu and the row it saves (none: {}).
UpdateMenuOutcome(id, parent_id, is_active) ==
    LET menu == [id |-> id, parent_id |-> parent_id, is_active |-> is_active]
        walk == isCircularReference(parent_id, id)
    IN  IF MenuRows(id) = {}
        THEN [status |-> 404, error |-> "Menu not found", save |-> {}]
        ELSE IF parent_id # NoParent /\ parent_id # id /\ MenuRows(parent_id) = {}
        THEN [status |-> 400, error |-> "Parent menu not found", save |-> {}]
        ELSE IF parent_id # NoParent /\ parent_id # id /\ walk = "true"
        THEN [status |-> 400, error |-> "Circular reference detected", save |-> {}]
        ELSE IF parent_id # NoParent /\ parent_id # id /\ walk = "diverges"
        THEN [status |-> Fatal, error |-> "", save |-> {}]
        ELSE [status |-> 200, error |-> "", save |-> {menu}]

UpdateMenu(id, parent_id, is_active) ==
    /\ menuResp.status # Fatal
    /\ LET out == UpdateMenuOutcome(id, parent_id, is_active) IN
       /\ menus' = IF out.save = {} THEN menus ELSE (menus \ MenuRows(id)) \cup out.save
       /\ menuResp' = [MenuJSON("UpdateMenu", out.status, out.error,
                                {MenuResponse(m) : m \in out.save})
                         EXCEPT !.id = id, !.parent_id = parent_id]
    /\ UNCHANGED map_role_menu
    /\ UNCHANGED menuReq
    /\ UNCHANGED <<accessVars, authVars, auditVars>>

\* A count of the active children only.
ChildCountActive(id) == Cardinality({m \in menus : m.parent_id = id /\ m.is_active})

\* Model(&models.Menu{}).Where("parent_id = ?", id).Count(&childCount)
ChildCount(id) == Cardinality({m \in menus : m.parent_id = id})

DeleteMenu(id) ==
    /\ menuResp.status # Fatal
    /\ LET childCount == ChildCount(id) IN
       IF childCount > 0
       THEN /\ menuResp' = MenuJSON("DeleteMenu", 400, "Cannot delete menu with children. Delete children first.", {})
            /\ UNCHANGED menus
       ELSE IF \E g \in map_role_menu : g.menu_id = id
       THEN \* the foreign key of map_role_menu refuses the DELETE
            /\ menuResp' = MenuJSON("DeleteMenu", 500, "Failed to delete menu", {})
            /\ UNCHANGED menus
       ELSE IF MenuRows(id) = {}
       THEN /\ menuResp' = MenuJSON("DeleteMenu", 404, "Menu not found", {})
            /\ UNCHANGED menus
       ELSE /\ menus' = menus \ MenuRows(id)
            /\ menuResp' = MenuJSON("DeleteMenu", 200, "", {})
    /\ UNCHANGED map_role_menu
    /\ UNCHANGED menuReq
    /\ UNCHANGED <<accessVars, authVars, auditVars>>

\* ---- the same handlers, one store query at a time

\* (ForeignKeyAbsent: a schema migrated without its constraints.)
ForeignKeyAbsent(rows) == TRUE

\* The foreign key gorm's AutoMigrate puts on menus.parent_id for the relations
\* Parent and Children of models.Menu: the store refuses a statement that would
\* leave a row whose parent_id names no row of the table.
ForeignKeyHolds(rows) ==
    \A m \in rows : m.parent_id # NoParent => \E p \in rows : p.id = m.parent_id

\* No request has brought the process down.
MenuRequestsAlive == \A s \in MenuSlots : menuReq[s].status # Fatal

\* c.JSON(status, ...) and return: what is kept of an answered request is its
\* handler and its answer.
MenuDone(rq, status, error) ==
    [IdleMenuReq EXCEPT !.op = rq.op, !.pc = "done", !.status = status, !.error = error]

\* UpdateMenu up to its validation of the parent: the row is loaded, its parent
\* is looked up and isCircularReference walks up from it; the reads are taken
\* as one read of the store.
UpdateMenuValidate(s, id, parent_id) ==
    /\ MenuRequestsAlive
    /\ menuReq[s].pc \in {"idle", "done"}
    /\ LET rq   == [IdleMenuReq EXCEPT !.op = "UpdateMenu", !.id = id, !.parent_id = parent_id]
           walk == isCircularReference(parent_id, id)
       IN  menuReq' = [menuReq EXCEPT ![s] =
                          IF MenuRows(id) = {}
                          THEN MenuDone(rq, 404, "Menu not found")
                          ELSE IF parent_id = NoParent \/ parent_id = id
                          THEN [rq EXCEPT !.pc = "save"]
                          ELSE IF MenuRows(parent_id) = {}
                          THEN MenuDone(rq, 400, "Parent menu not found")
                          ELSE IF walk = "true"
                          THEN MenuDone(rq, 400, "Circular reference detected")
                          ELSE IF walk = "diverges"
                          THEN MenuDone(rq, Fatal, "")
                          ELSE [rq EXCEPT !.pc = "save"]]
    /\ UNCHANGED <<menus, map_role_menu, menuResp>>
    /\ UNCHANGED <<accessVars, authVars, auditVars>>

\* UpdateMenu's DB.Save(&menu): an UPDATE by primary key, and an insert of the
\* row when the UPDATE found none.
UpdateMenuSave(s) ==
    /\ MenuRequestsAlive
    /\ menuReq[s].op = "UpdateMenu"
    /\ menuReq[s].pc = "save"
    /\ LET rq   == menuReq[s]
           menu == [id |-> rq.id, parent_id |-> rq.parent_id, is_active |-> TRUE]
           rows == (menus \ MenuRows(rq.id)) \cup {menu}
       IN  IF ForeignKeyHolds(rows)
           THEN /\ menus' = rows
                /\ menuReq' = [menuReq EXCEPT ![s] = MenuDone(rq, 200, "")]
           ELSE /\ menuReq' = [menuReq EXCEPT ![s] = MenuDone(rq, 500, "Failed to update menu")]
                /\ UNCHANGED menus
    /\ UNCHANGED <<map_role_menu, menuResp>>
    /\ UNCHANGED <<accessVars, authVars, auditVars>>

\* CreateMenu up to the lookup of the parent.
CreateMenuValidate(s, parent_id) ==
    /\ MenuRequestsAlive
    /\ menuReq[s].pc \in {"idle", "done"}
    /\ LET rq == [IdleMenuReq EXCEPT !.op = "CreateMenu", !.parent_id = parent_id]
       IN  menuReq' = [menuReq EXCEPT ![s] =
                          IF parent_id # NoParent /\ MenuRows(parent_id) = {}
                          THEN MenuDone(rq, 400, "Parent menu not found")
                          ELSE [rq EXCEPT !.pc = "create"]]
    /\ UNCHANGED <<menus, map_role_menu, menuResp>>
    /\ UNCHANGED <<accessVars, authVars, auditVars>>

\* CreateMenu's DB.Create(&menu), with a new primary key.
CreateMenuInsert(s, id) ==
    /\ MenuRequestsAlive
    /\ menuReq[s].op = "CreateMenu"
    /\ menuReq[s].pc = "create"
    /\ id \in FreeMenuIds
    /\ LET rq   == [menuReq[s] EXCEPT !.id = id]
           menu == [id |-> id, parent_id |-> rq.parent_id, is_active |-> TRUE]
           rows == menus \cup {menu}
       IN  IF ForeignKeyHolds(rows)
           THEN /\ menus' = rows
                /\ menuReq' = [menuReq EXCEPT ![s] = MenuDone(rq, 201, "")]
           ELSE /\ menuReq' = [menuReq EXCEPT ![s] = MenuDone(menuReq[s], 500, "Failed to create menu")]
                /\ UNCHANGED menus
    /\ UNCHANGED <<map_role_menu, menuResp>>
    /\ UNCHANGED <<accessVars, authVars, auditVars>>

\* DeleteMenu up to the count of the children.
DeleteMenuCount(s, id) ==
    /\ MenuRequestsAlive
    /\ menuReq[s].pc \in {"idle", "done"}
    /\ LET rq == [IdleMenuReq EXCEPT !.op = "DeleteMenu", !.id = id]
       IN  menuReq' = [menuReq EXCEPT ![s] =
                          IF ChildCount(id) > 0
                          THEN MenuDone(rq, 400, "Cannot delete menu with children. Delete children first.")
                          ELSE [rq EXCEPT !.pc = "delete"]]
    /\ UNCHANGED <<menus, map_role_menu, menuResp>>
    /\ UNCHANGED <<accessVars, authVars, auditVars>>

\* DeleteMenu's DB.Delete(&models.Menu{}, "id = ?", id).
DeleteMenuDelete(s) ==
    /\ MenuRequestsAlive
    /\ menuReq[s].op = "DeleteMenu"
    /\ menuReq[s].pc = "delete"
    /\ LET rq   == menuReq[s]
           rows == menus \ MenuRows(rq.id)
       IN  IF (\E g \in map_role_menu : g.menu_id = rq.id) \/ ~ForeignKeyHolds(rows)
           THEN /\ menuReq' = [menuReq EXCEPT ![s] = MenuDone(rq, 500, "Failed to delete menu")]
                /\ UNCHANGED menus
           ELSE IF MenuRows(rq.id) = {}
           THEN /\ menuReq' = [menuReq EXCEPT ![s] = MenuDone(rq, 404, "Menu not found")]
                /\ UNCHANGED menus
           ELSE /\ menus' = rows
                /\ menuReq' = [menuReq EXCEPT ![s] = MenuDone(rq, 200, "")]
    /\ UNCHANGED <<map_role_menu, menuResp>>
    /\ UNCHANGED <<accessVars, authVars, auditVars>>

\* The process is started again after a fatal error; the store is the database's.
Recover ==
    /\ menuResp.status = Fatal
    /\ menuResp' = NoMenuResp
    /\ UNCHANGED <<menus, map_role_menu>>
    /\ UNCHANGED menuReq
    /\ UNCHANGED <<accessVars, authVars, auditVars>>

AssignRoleToMenu(menu_id, role_id) ==
    /\ menuResp.status # Fatal
    /\ IF MenuRows(menu_id) = {}
       THEN /\ menuResp' = MenuJSON("AssignRoleToMenu", 404, "Menu not found", {})
            /\ UNCHANGED map_role_menu
       ELSE IF {r \in roles : r.id = role_id} = {}
       THEN /\ menuResp' = MenuJSON("AssignRoleToMenu", 404, "Role not found", {})
            /\ UNCHANGED map_role_menu
       ELSE /\ Cardinality(map_role_menu \cup {[role_id |-> role_id, menu_id |-> menu_id]}) <= MaxMenuGrants
            /\ map_role_menu' = map_role_menu \cup {[role_id |-> role_id, menu_id |-> menu_id]}
            /\ menuResp' = MenuJSON("AssignRoleToMenu", 200, "", {})
    /\ UNCHANGED menus
    /\ UNCHANGED menuReq
    /\ UNCHANGED <<accessVars, authVars, auditVars>>

RemoveRoleFromMenu(menu_id, role_id) ==
    /\ menuResp.status # Fatal
    /\ IF MenuRows(menu_id) = {}
       THEN /\ menuResp' = MenuJSON("RemoveRoleFromMenu", 404, "Menu not found", {})
            /\ UNCHANGED map_role_menu
       ELSE IF {r \in roles : r.id = role_id} = {}
       THEN /\ menuResp' = MenuJSON("RemoveRoleFromMenu", 404, "Role not found", {})
            /\ UNCHANGED map_role_menu
       ELSE /\ map_role_menu' = map_role_menu \ {[role_id |-> role_id, menu_id |-> menu_id]}
            /\ menuResp' = MenuJSON("RemoveRoleFromMenu", 200, "", {})
    /\ UNCHANGED menus
    /\ UNCHANGED menuReq
    /\ UNCHANGED <<accessVars, authVars, auditVars>>

\* Preload("Roles"): the names of the roles map_role_menu grants the menu to.
MenuRoleNames(menu_id) ==
    {r.name : r \in {x \in roles : [role_id |-> x.id, menu_id |-> menu_id] \in map_role_menu}}

\* The JOINs of the two queries: the menu has a row of map_role_menu whose
\* role is named in userRoles.
JoinsRoleIn(m, userRoles) ==
    \E g \in map_role_menu : g.menu_id = m.id /\ g.role_id \in RoleIdsNamed(userRoles)

\* A query that filters the roots only and takes every child of a menu.
UserMenuQueryRootsOnly(parent_id, userRoles) ==
    {m \in menus : /\ m.parent_id = parent_id
                   /\ parent_id = NoParent => (m.is_active /\ JoinsRoleIn(m, userRoles))}

\* A query whose root form has lost its condition parent_id IS NULL.
UserMenuQueryAnyParent(parent_id, userRoles) ==
    {m \in menus : /\ m.is_active
                   /\ parent_id # NoParent => m.parent_id = parent_id
                   /\ JoinsRoleIn(m, userRoles)}

\* The query of GetUserMenus (parent_id IS NULL) and of loadUserMenuChildren
\* (parent_id = ?): the active rows under parent_id that the join with
\* map_role_menu and roles keeps for userRoles, DISTINCT.
UserMenuQuery(parent_id, userRoles) ==
    {m \in menus : /\ m.is_active
                   /\ m.parent_id = parent_id
                   /\ JoinsRoleIn(m, userRoles)}

\* The models.Menu with Roles preloaded and Children loaded, level by level.
\* Siblings are a set: their order (sequence, then name) is not modelled.
RECURSIVE loadUserMenuChildren(_, _)
loadUserMenuChildren(menu, userRoles) ==
    [menu |-> menu,
     Roles |-> MenuRoleNames(menu.id),
     Children |-> {loadUserMenuChildren(c, userRoles) : c \in UserMenuQuery(menu.id, userRoles)}]

\* The calls of loadUserMenuChildren under the call named by path, as for
\* loadMenuChildrenCalls, one call per row the filtered query returns.
RECURSIVE loadUserMenuChildrenCalls(_, _, _)
loadUserMenuChildrenCalls(path, userRoles, depth) ==
    IF depth = 0 THEN {path}
    ELSE {path} \cup UNION {loadUserMenuChildrenCalls(Append(path, c.id), userRoles, depth - 1) :
                                c \in UserMenuQuery(path[Len(path)], userRoles)}

\* The calls of loadUserMenuChildren one GetUserMenus makes for userRoles.
GetUserMenusCalls(userRoles) ==
    UNION {loadUserMenuChildrenCalls(<<m.id>>, userRoles, Cardinality(menus)) :
              m \in UserMenuQuery(NoParent, userRoles)}

RECURSIVE buildUserMenuResponse(_, _)
buildUserMenuResponse(menu, includeRoles) ==
    [id |-> menu.menu.id, parent_id |-> menu.menu.parent_id, is_active |-> menu.menu.is_active,
     children |-> {buildUserMenuResponse(child, includeRoles) : child \in menu.Children},
     roles |-> IF includeRoles THEN menu.Roles ELSE {}]

\* The answer of GetUserMenus for a caller AuthMiddleware let through with
\* role names userRoles (the context then holds "roles").
UserMenusJSON(userRoles) ==
    LET isSuperAdmin == "super_admin" \in userRoles
        loaded == {loadUserMenuChildren(m, userRoles) : m \in UserMenuQuery(NoParent, userRoles)}
        response == IF userRoles = {} THEN {}
                    ELSE {buildUserMenuResponse(menu, isSuperAdmin) : menu \in loaded}
    IN  [MenuJSON("GetUserMenus", 200, "", response) EXCEPT !.roles = userRoles]

GetUserMenus(userRoles) ==
    /\ menuResp.status # Fatal
    /\ menuResp' = UserMenusJSON(userRoles)
    /\ UNCHANGED <<menus, map_role_menu>>
    /\ UNCHANGED menuReq
    /\ UNCHANGED <<accessVars, authVars, auditVars>>

\* ------------------------------------------------------------------ GetMenus

\* A GetMenus that takes the root rows whatever the flat parameter says.
MenuFindRoots(flat) == {m \in menus : m.parent_id = NoParent}

\* A GetMenus whose tree mode has lost its condition parent_id IS NULL.
MenuFindEveryRow(flat) == menus

\* The rows GetMenus finds: all of them in flat mode, else those with
\* parent_id IS NULL. No condition names the caller or is_active.
MenuFind(flat) == IF flat THEN menus ELSE {m \in menus : m.parent_id = NoParent}

\* loadMenuChildren: every row under the menu, level by level, Roles preloaded.
RECURSIVE loadMenuChildren(_)
loadMenuChildren(menu) ==
    [menu |-> menu,
     Roles |-> MenuRoleNames(menu.id),
     Children |-> {loadMenuChildren(c) : c \in {m \in menus : m.parent_id = menu.id}}]

\* The calls of loadMenuChildren under the call named by path, the ids from
\* the root row down to the row the call is for; one call per row the query
\* parent_id = ? returns. The tree of calls is followed depth levels down.
RECURSIVE loadMenuChildrenCalls(_, _)
loadMenuChildrenCalls(path, depth) ==
    IF depth = 0 THEN {path}
    ELSE {path} \cup UNION {loadMenuChildrenCalls(Append(path, c.id), depth - 1) :
                                c \in {m \in menus : m.parent_id = path[Len(path)]}}

\* The calls of loadMenuChildren one GetMenus in tree mode makes, one tree of
\* calls per row it finds. A call deeper than the number of rows is a call
\* for a row that is already on its own path, which repeats without end.
GetMenusCalls ==
    UNION {loadMenuChildrenCalls(<<m.id>>, Cardinality(menus)) : m \in MenuFind(FALSE)}

RECURSIVE buildMenuResponse(_)
buildMenuResponse(menu) ==
    [id |-> menu.menu.id, parent_id |-> menu.menu.parent_id, is_active |-> menu.menu.is_active,
     children |-> {buildMenuResponse(child) : child \in menu.Children},
     roles |-> menu.Roles]

\* GetMenus with query parameter flat; userRoles are the role names
\* AuthMiddleware put in the context, which GetMenus does not read (they are
\* kept with the response to tell whose request it answers).
GetMenus(flat, userRoles) ==
    /\ menuResp.status # Fatal
    /\ LET loaded == IF flat
                     THEN {[menu |-> m, Roles |-> MenuRoleNames(m.id), Children |-> {}] :
                              m \in MenuFind(flat)}
                     ELSE {loadMenuChildren(m) : m \in MenuFind(flat)}
           response == {buildMenuResponse(menu) : menu \in loaded}
       IN  menuResp' = [MenuJSON(IF flat THEN "GetMenus?flat=true" ELSE "GetMenus",
                                 200, "", response) EXCEPT !.roles = userRoles]
    /\ UNCHANGED <<menus, map_role_menu>>
    /\ UNCHANGED menuReq
    /\ UNCHANGED <<accessVars, authVars, auditVars>>

\* The menu store before the first administrative request.
MenuIdle ==
    /\ menus = {}
    /\ map_role_menu = {}
    /\ menuResp = NoMenuResp
    /\ menuReq = NoMenuReq

\* ------------------------------------------------------------------ roles of users, menus of callers

\* AssignRoleToUser: user and role must exist (404 otherwise);
\* Association("Roles").Append adds the row of map_user_role.
AssignRoleToUser(u, roleId) ==
    /\ boot.i = 0
    /\ u \in Users
    /\ \E r \in roles : r.id = roleId
    /\ map_user_role' = map_user_role \cup {[user_id |-> u, role_id |-> roleId]}
    /\ UNCHANGED <<now, user_tokens, req, revoked, JWTSecret>>
    /\ UNCHANGED <<accessVars, menuVars, auditVars>>

\* RemoveRoleFromUser: user and role must exist; Association("Roles").Delete
\* drops the row. No row of user_tokens is touched.
RemoveRoleFromUser(u, roleId) ==
    /\ boot.i = 0
    /\ u \in Users
    /\ \E r \in roles : r.id = roleId
    /\ map_user_role' = map_user_role \ {[user_id |-> u, role_id |-> roleId]}
    /\ UNCHANGED <<now, user_tokens, req, revoked, JWTSecret>>
    /\ UNCHANGED <<accessVars, menuVars, auditVars>>

\* GetUserMenus at the end of the chain of request r: the roles are those
\* AuthMiddleware put in the context.
UserMenus(r) ==
    /\ req[r].pc = "handler"
    /\ req[r].route = UserMenusRoute
    /\ menuResp.status # Fatal
    /\ IF ~req[r].ctx.set
       THEN /\ req' = [req EXCEPT ![r] = Handled(req[r], 401)]
            /\ UNCHANGED menuResp
       ELSE /\ req' = [req EXCEPT ![r] = Handled(req[r], 200)]
            /\ menuResp' = UserMenusJSON(req[r].ctx.roles)
    /\ UNCHANGED <<menus, map_role_menu, menuReq>>
    /\ UNCHANGED <<now, map_user_role, user_tokens, revoked, JWTSecret>>
    /\ UNCHANGED <<accessVars, auditVars>>

\* ------------------------------------------------------------------ the permission matrix on its own

RoleIds == {r.id : r \in SeedRoles}

\* The administrative handlers on the permission matrix.
ApiHandlers ==
    \/ \E id \in ApiIds, rt \in RoutePairs : CreateAPI(id, rt[1], rt[2])
    \/ \E id \in ApiIds, rt \in RoutePairs : UpdateAPI(id, rt[1], rt[2])
    \/ \E id \in ApiIds : DeleteAPI(id)
    \/ \E id \in ApiIds, r \in RoleIds : AssignAPIToRole(id, r)
    \/ \E id \in ApiIds, r \in RoleIds : RemoveAPIFromRole(id, r)

\* Startup reconciliation, restarts and the administrative handlers.
InitReconcile ==
    /\ routes \in Releases
    /\ apis = {}
    /\ map_role_api = {}
    /\ roles = SeedRoles
    /\ boot = [i |-> 1, clean |-> TRUE]
    /\ access = NoAccess
    /\ reconciled = NotReconciled
    /\ partial = NoPartial
    /\ AuthIdle
    /\ MenuIdle

NextReconcile ==
    \/ \E fail \in {"none", "lookup", "create"} : ReconcileStep(fail)
    \/ \E release \in Releases : Restart(release)
    \/ ApiHandlers

SpecReconcile == InitReconcile /\ [][NextReconcile]_vars

\* Startup and the access checks of the requests served after it.
NextBoot ==
    \/ \E fail \in {"none", "lookup", "create"} : ReconcileStep(fail)
    \/ \E release \in Releases : Restart(release)
    \/ \E rt \in RoutePairs, names \in CallerRoleSets, fail \in {"none", "lookup"} :
          CheckAccess(rt[1], rt[2], names, fail)

SpecBoot == InitReconcile /\ [][NextBoot]_vars

\* Startup alone: runs of insertAPIEndpoints, cut short by a crash or a store
\* error, and the restarts that follow. No request is served in between.
NextStartup ==
    \/ \E fail \in {"none", "lookup", "create"} : ReconcileStep(fail)
    \/ \E release \in Releases : Restart(release)

SpecStartup == InitReconcile /\ [][NextStartup]_vars

\* A first start on an empty store: reconciliation, then the access checks of
\* the requests served, the grant requests that pass them, and the seed script.
InitLockout ==
    /\ routes = <<AssignRoute, RolesRoute>>
    /\ apis = {}
    /\ map_role_api = {}
    /\ roles = SeedRoles
    /\ boot = [i |-> 1, clean |-> TRUE]
    /\ access = NoAccess
    /\ reconciled = NotReconciled
    /\ partial = NoPartial
    /\ AuthIdle
    /\ MenuIdle

NextLockout ==
    \/ \E fail \in {"none", "lookup", "create"} : ReconcileStep(fail)
    \/ \E rt \in {AssignRoute, RolesRoute}, names \in CallerRoleSets :
          CheckAccess(rt[1], rt[2], names, "none")
    \/ \E names \in CallerRoleSets, id \in ApiIds, r \in RoleIds :
          AssignAPIToRoleRequest(names, id, r)
    \/ SeedSuperAdminGrants

SpecLockout == InitLockout /\ [][NextLockout]_vars

\* The serving process: the administrative handlers and the access check.
InitAccess ==
    /\ routes = NewRelease
    /\ apis = {}
    /\ map_role_api = {}
    /\ roles = SeedRoles
    /\ boot = Serving
    /\ access = NoAccess
    /\ reconciled = NotReconciled
    /\ partial = NoPartial
    /\ AuthIdle
    /\ MenuIdle

NextAccess ==
    \/ ApiHandlers
    \/ \E rt \in RoutePairs, names \in CallerRoleSets :
          CheckAccess(rt[1], rt[2], names, "none")

SpecAccess == InitAccess /\ [][NextAccess]_vars

\* The serving process as its clients see it: logins, requests on protected
\* routes through the chain, and the clock. The permission matrix is the one a
\* reconciliation and the grant handlers left: every route but GET /menus/user
\* has an entry, super_admin is granted all of them, ops the session routes.
SeedApis ==
    {[id |-> 1, path |-> LogoutRoute[1], method |-> LogoutRoute[2]],
     [id |-> 2, path |-> RevokeTokenRoute[1], method |-> RevokeTokenRoute[2]],
     [id |-> 3, path |-> RevokeAllRoute[1], method |-> RevokeAllRoute[2]],
     [id |-> 4, path |-> RolesRoute[1], method |-> RolesRoute[2]]}

SeedGrants ==
    {[role_id |-> 1, api_id |-> a.id] : a \in SeedApis}
        \cup {[role_id |-> 2, api_id |-> i] : i \in {1, 2, 3}}

InitAuth ==
    /\ routes = <<LogoutRoute, RevokeTokenRoute, RevokeAllRoute, RolesRoute, UserMenusRoute>>
    /\ apis = SeedApis
    /\ map_role_api = SeedGrants
    /\ roles = SeedRoles
    /\ boot = Serving
    /\ access = NoAccess
    /\ reconciled = NotReconciled
    /\ partial = NoPartial
    /\ AuthIdle
    /\ MenuIdle

NextAuth ==
    \/ \E u \in Users : Login(u)
    \/ Tick
    \/ \E r \in DOMAIN req, route \in ProtectedRoutes, t \in PresentedTokens, id \in 0..Len(user_tokens) :
          NewRequest(r, route, Bearer(t), id)
    \/ \E r \in DOMAIN req, route \in ProtectedRoutes, h \in {NoHeader, BadHeader} :
          NewRequest(r, route, h, 0)
    \/ \E r \in DOMAIN req, fail \in {"none", "lookup"} : AuthStage(r, fail)
    \/ \E r \in DOMAIN req, fail \in {"none", "lookup", "count"} : AccessStage(r, fail)
    \/ \E r \in DOMAIN req : Logout(r)
    \/ \E r \in DOMAIN req : RevokeToken(r)
    \/ \E r \in DOMAIN req : RevokeAllTokens(r)
    \/ \E r \in DOMAIN req : ReadHandler(r)

SpecAuth == InitAuth /\ [][NextAuth]_vars

\* Two connections of one user revoking that user's sessions.
InitRevoke ==
    /\ routes = <<LogoutRoute, RevokeTokenRoute, RevokeAllRoute, RolesRoute, UserMenusRoute>>
    /\ apis = SeedApis
    /\ map_role_api = SeedGrants
    /\ roles = SeedRoles
    /\ boot = Serving
    /\ access = NoAccess
    /\ reconciled = NotReconciled
    /\ partial = NoPartial
    /\ JWTSecret = "k"
    /\ now = 0
    /\ map_user_role = SeedUserRoles
    /\ user_tokens = <<>>
    /\ req = [r \in {1, 2} |-> IdleReq]
    /\ revoked = {}
    /\ AuditIdle
    /\ MenuIdle

NextRevoke ==
    \/ Login("u1")
    \/ Tick
    \/ \E r \in DOMAIN req, t \in PresentedTokens \ {ForgedToken, RegisterToken}, id \in TokenIds :
          NewRequest(r, RevokeTokenRoute, Bearer(t), id)
    \/ \E r \in DOMAIN req : AuthStage(r, "none")
    \/ \E r \in DOMAIN req : AccessStage(r, "none")
    \/ \E r \in DOMAIN req : RevokeToken(r)

SpecRevoke == InitRevoke /\ [][NextRevoke]_vars

\* The sessions of two users, each naming any session id to RevokeToken.
NextOwner ==
    \/ \E u \in Users : Login(u)
    \/ Tick
    \/ \E r \in DOMAIN req, t \in IssuedTokens, id \in TokenIds \cup {Len(user_tokens) + 1} :
          NewRequest(r, RevokeTokenRoute, Bearer(t), id)
    \/ \E r \in DOMAIN req : AuthStage(r, "none")
    \/ \E r \in DOMAIN req : AccessStage(r, "none")
    \/ \E r \in DOMAIN req : RevokeToken(r)

SpecOwner == InitAuth /\ [][NextOwner]_vars

\* Two connections with the sessions of one user: while a read request of the
\* first is on its way through the chain the second logs out or revokes.
NextInFlight ==
    \/ Login("u1")
    \/ Tick
    \/ \E t \in IssuedTokens : NewRequest(1, RolesRoute, Bearer(t), 0)
    \/ \E route \in {LogoutRoute, RevokeAllRoute}, t \in IssuedTokens :
          NewRequest(2, route, Bearer(t), 0)
    \/ \E t \in IssuedTokens, id \in TokenIds : NewRequest(2, RevokeTokenRoute, Bearer(t), id)
    \/ \E r \in DOMAIN req : AuthStage(r, "none")
    \/ \E r \in DOMAIN req : AccessStage(r, "none")
    \/ \E r \in DOMAIN req : Logout(r)
    \/ \E r \in DOMAIN req : RevokeToken(r)
    \/ \E r \in DOMAIN req : RevokeAllTokens(r)
    \/ \E r \in DOMAIN req : ReadHandler(r)

SpecInFlight == InitRevoke /\ [][NextInFlight]_vars

\* Sessions while an administrator changes the roles of users: GET /menus/user
\* has an entry granted to both roles, GET /roles/ is granted to super_admin,
\* and one root menu is granted to ops.
UserMenusApi == [id |-> 5, path |-> UserMenusRoute[1], method |-> UserMenusRoute[2]]

InitRoles ==
    /\ routes = <<LogoutRoute, RevokeTokenRoute, RevokeAllRoute, RolesRoute, UserMenusRoute>>
    /\ apis = SeedApis \cup {UserMenusApi}
    /\ map_role_api = SeedGrants \cup {[role_id |-> r, api_id |-> UserMenusApi.id] : r \in {1, 2}}
    /\ roles = SeedRoles
    /\ boot = Serving
    /\ access = NoAccess
    /\ reconciled = NotReconciled
    /\ partial = NoPartial
    /\ AuthIdle
    /\ menus = {[id |-> 1, parent_id |-> NoParent, is_active |-> TRUE]}
    /\ map_role_menu = {[role_id |-> 2, menu_id |-> 1]}
    /\ menuResp = NoMenuResp
    /\ menuReq = NoMenuReq

NextRoles ==
    \/ \E u \in Users : Login(u)
    \/ \E u \in Users, r \in RoleIds : AssignRoleToUser(u, r)
    \/ \E u \in Users, r \in RoleIds : RemoveRoleFromUser(u, r)
    \/ \E r \in DOMAIN req, route \in {RolesRoute, UserMenusRoute},
          t \in PresentedTokens \ {ForgedToken, RegisterToken} : NewRequest(r, route, Bearer(t), 0)
    \/ \E r \in DOMAIN req : AuthStage(r, "none")
    \/ \E r \in DOMAIN req : AccessStage(r, "none")
    \/ \E r \in DOMAIN req : ReadHandler(r)
    \/ \E r \in DOMAIN req : UserMenus(r)

SpecRoles == InitRoles /\ [][NextRoles]_vars

\* Login attempts of every kind and the audit goroutines they start.
NextLogin ==
    \/ \E login \in LoginNames, bound \in BOOLEAN, password \in BOOLEAN,
          fault \in {"none", "find", "save"} : LoginBegin(login, bound, password, fault)
    \/ \E k \in DOMAIN logins : LoginRespond(k)
    \/ \E t \in DOMAIN tasks, ok \in BOOLEAN : AuditWrite(t, ok)

SpecLogin == InitAuth /\ [][NextLogin]_vars

\* Logins that run while the sessions of the same users are revoked: Login is
\* taken in its two steps (up to the save of the row and the start of the audit
\* goroutine; the c.JSON), RevokeAllTokens comes through the chain of its route
\* with a token a client was given.
NextSession ==
    \/ \E login \in Users, fault \in {"none", "save"} : LoginBegin(login, TRUE, TRUE, fault)
    \/ \E k \in DOMAIN logins : LoginRespond(k)
    \/ Tick
    \/ \E r \in DOMAIN req, t \in IssuedTokens : NewRequest(r, RevokeAllRoute, Bearer(t), 0)
    \/ \E r \in DOMAIN req : AuthStage(r, "none")
    \/ \E r \in DOMAIN req : AccessStage(r, "none")
    \/ \E r \in DOMAIN req : RevokeAllTokens(r)

SpecSession == InitAuth /\ [][NextSession]_vars

\* The same race with Login cut at each of its store queries: RevokeAllTokens
\* can run before Login's insert, also when Login has loaded its user already.
NextRace ==
    \/ \E login \in Users : LoginFind(login)
    \/ \E k \in DOMAIN logins : LoginSave(k, "none")
    \/ \E k \in DOMAIN logins : LoginRespond(k)
    \/ Tick
    \/ \E r \in DOMAIN req, t \in IssuedTokens : NewRequest(r, RevokeAllRoute, Bearer(t), 0)
    \/ \E r \in DOMAIN req : AuthStage(r, "none")
    \/ \E r \in DOMAIN req : AccessStage(r, "none")
    \/ \E r \in DOMAIN req : RevokeAllTokens(r)

SpecRace == InitAuth /\ [][NextRace]_vars

\* The same requests on a process started with any JWT_SECRET: main runs
\* InitDB and SetupRouter and serves, whatever JWTSecret was initialized to.
InitSecret ==
    /\ routes = <<LogoutRoute, RevokeTokenRoute, RevokeAllRoute, RolesRoute, UserMenusRoute>>
    /\ apis = SeedApis
    /\ map_role_api = SeedGrants
    /\ roles = SeedRoles
    /\ boot = Serving
    /\ access = NoAccess
    /\ reconciled = NotReconciled
    /\ partial = NoPartial
    /\ JWTSecret \in EnvSecrets
    /\ now = 0
    /\ map_user_role = SeedUserRoles
    /\ user_tokens = <<>>
    /\ req = [r \in {1} |-> IdleReq]
    /\ revoked = {}
    /\ AuditIdle
    /\ MenuIdle

SpecSecret == InitSecret /\ [][NextAuth]_vars

\* ------------------------------------------------------------------ the menu tree on its own

\* The permission matrix of a serving process no request changes.
AccessIdle ==
    /\ routes = NewRelease
    /\ apis = {}
    /\ map_role_api = {}
    /\ roles = SeedRoles
    /\ boot = Serving
    /\ access = NoAccess
    /\ reconciled = NotReconciled
    /\ partial = NoPartial

\* A parent_id a request can carry.
ParentIds == MenuIds \cup {NoParent}

\* CreateMenu with the key uuid.New() draws: which free key it is makes no
\* difference, the smallest stands for all.
CreateMenuRequest(actives) ==
    \E id \in FreeMenuIds, parent_id \in ParentIds, is_active \in actives :
        id = Min(FreeMenuIds) /\ CreateMenu(id, parent_id, is_active)

\* The administrative handlers on the rows of table menus, one request at a
\* time.  The requests are those that move menus in the tree: is_active is
\* true in all of them.
InitMenu == AccessIdle /\ AuthIdle /\ MenuIdle

NextMenu ==
    \/ CreateMenuRequest({TRUE})
    \/ \E id \in MenuIds, parent_id \in ParentIds : UpdateMenu(id, parent_id, TRUE)
    \/ \E id \in MenuIds : DeleteMenu(id)
    \/ Recover

SpecMenu == InitMenu /\ [][NextMenu]_vars

\* The menus of a caller, over the forests CreateMenu builds, of active and
\* inactive menus, and the role assignments grant.
InitUserMenus == AccessIdle /\ AuthIdle /\ MenuIdle

NextUserMenus ==
    \/ CreateMenuRequest(BOOLEAN)
    \/ \E m \in menus, r \in RoleIds : AssignRoleToMenu(m.id, r)
    \/ \E m \in menus, r \in RoleIds : RemoveRoleFromMenu(m.id, r)
    \/ \E names \in CallerRoleSets : GetUserMenus(names)

SpecUserMenus == InitUserMenus /\ [][NextUserMenus]_vars

\* The listing of GetMenus, tree and flat, over the same forests and grants.
NextMenuList ==
    \/ CreateMenuRequest(BOOLEAN)
    \/ \E m \in menus, r \in RoleIds : AssignRoleToMenu(m.id, r)
    \/ \E m \in menus, r \in RoleIds : RemoveRoleFromMenu(m.id, r)
    \/ \E flat \in BOOLEAN, names \in {{"ops"}, {"super_admin"}} : GetMenus(flat, names)

SpecMenuList == InitUserMenus /\ [][NextMenuList]_vars

\* Menu requests on two connections, each handler taken one store query at a
\* time: the first connection creates menus, both move menus in the tree.
NextMenuCycle ==
    \/ \E parent_id \in ParentIds : CreateMenuValidate(1, parent_id)
    \/ \E id \in FreeMenuIds : id = Min(FreeMenuIds) /\ CreateMenuInsert(1, id)
    \/ \E s \in MenuSlots, id \in MenuIds, parent_id \in ParentIds : UpdateMenuValidate(s, id, parent_id)
    \/ \E s \in MenuSlots : UpdateMenuSave(s)

SpecMenuCycle == InitMenu /\ [][NextMenuCycle]_vars

\* The menus the crossing moves are about: the two that are created first.
MovedMenuIds == {1, 2}

\* Listings of the menu tree over the stores that creation and crossing
\* moves on two connections leave, self-parents and cycles among them: the
\* moves put one of the two oldest menus under one of them, later menus are
\* created as roots or under one of them, and one role is granted them.
NextMenuDescent ==
    \/ \E parent_id \in {NoParent} \cup MovedMenuIds : CreateMenuValidate(1, parent_id)
    \/ \E id \in FreeMenuIds : id = Min(FreeMenuIds) /\ CreateMenuInsert(1, id)
    \/ \E s \in MenuSlots, id \in MovedMenuIds, parent_id \in MovedMenuIds :
          /\ MenuRows(id) # {}
          /\ MenuRows(parent_id) # {}
          /\ UpdateMenuValidate(s, id, parent_id)
    \/ \E s \in MenuSlots : UpdateMenuSave(s)
    \/ \E id \in MovedMenuIds, r \in RoleIdsNamed({"ops"}) : AssignRoleToMenu(id, r)
    \/ GetMenus(FALSE, {"ops"})
    \/ GetUserMenus({"ops"})

SpecMenuDescent == InitMenu /\ [][NextMenuDescent]_vars

\* The first connection creates and moves menus while the second deletes.
NextMenuOrphan ==
    \/ \E parent_id \in ParentIds : CreateMenuValidate(1, parent_id)
    \/ \E id \in FreeMenuIds : id = Min(FreeMenuIds) /\ CreateMenuInsert(1, id)
    \/ \E id \in MenuIds, parent_id \in ParentIds : UpdateMenuValidate(1, id, parent_id)
    \/ UpdateMenuSave(1)
    \/ \E id \in MenuIds : DeleteMenuCount(2, id)
    \/ DeleteMenuDelete(2)

SpecMenuOrphan == InitMenu /\ [][NextMenuOrphan]_vars

\* Creation and deletion of menus, active and inactive, one request at a
\* time; UpdateMenu switches a menu on or off and leaves its parent.
InitMenuRows == AccessIdle /\ AuthIdle /\ MenuIdle

NextMenuRows ==
    \/ CreateMenuRequest(BOOLEAN)
    \/ \E m \in menus, is_active \in BOOLEAN : UpdateMenu(m.id, m.parent_id, is_active)
    \/ \E id \in MenuIds : DeleteMenu(id)

SpecMenuRows == InitMenuRows /\ [][NextMenuRows]_vars

\* ------------------------------------------------------------------ claims: permission matrix

\* The role names granted on an entry: roles joined to map_role_api.
GrantedRoles(a) ==
    {r.name : r \in {x \in roles : [role_id |-> x.id, api_id |-> a.id] \in map_role_api}}

C6_ReconcileIdempotent ==
    reconciled.valid =>
        /\ apis = reconciled.rows
        /\ \A i \in 1..Len(routes) : ApisMatching(routes[i][1], routes[i][2]) # {}

\* A second complete run has ended over the unchanged store of two or more entries.
C6_Witness ==
    /\ reconciled.valid
    /\ reconciled.runs = 2
    /\ boot.i = 0
    /\ Cardinality(apis) >= 2

\* C7: no two rows of table apis have the same (path, method).
C7_UniquePathMethod ==
    \A a, b \in apis : (a.path = b.path /\ a.method = b.method) => a = b

\* ------------------------------------------------------------------ claims: sessions and the gate

\* AuthMiddleware ran for request r in this step.
AuthStep(r) == req[r].pc = "auth" /\ req'[r].pc # "auth"

\* C2: whenever AuthMiddleware runs on a request presenting a token string that
\* Logout, RevokeToken or RevokeAllTokens has deactivated at any earlier time,
\* the request ends there with 401 and no principal, whatever happened in
\* between and whether or not the token's embedded expiry has passed.
C2_RevokedTokenRejected ==
    [][\A r \in DOMAIN req :
          (AuthStep(r) /\ req[r].header.kind = "bearer" /\ req[r].header.token \in revoked)
              => (req'[r].status = 401 /\ req'[r].pc = "done" /\ ~req'[r].ctx.set)]_vars

\* A request was refused with 401 on a revoked token whose embedded expiry is
\* still ahead, while a later login of the same user is active.
C2_Witness ==
    \E r \in DOMAIN req :
        /\ req[r].pc = "done" /\ req[r].status = 401
        /\ req[r].header.kind = "bearer"
        /\ req[r].header.token \in revoked
        /\ req[r].header.token.signed /\ now < req[r].header.token.exp
        /\ \E i \in TokenIds : /\ user_tokens[i].user_id = req[r].header.token.user_id
                               /\ user_tokens[i].token # req[r].header.token
                               /\ user_tokens[i].is_active

\* RevokeAllTokens answered 200 for request r in this step.
RevokeAllStep(r) ==
    /\ req[r].pc = "handler" /\ req[r].route = RevokeAllRoute
    /\ req'[r].pc = "done" /\ req'[r].status = 200

\* C3: when RevokeAllTokens completes for user U, every row of U that existed
\* before the call is inactive, the row of the calling session included, and
\* AuthMiddleware answers 401 to each of their tokens.
C3_RevokeAllDeactivatesAll ==
    [][\A r \in DOMAIN req :
          RevokeAllStep(r) =>
              /\ ~user_tokens'[req[r].ctx.token_id].is_active
              /\ \A i \in TokenIds :
                    user_tokens[i].user_id = req[r].ctx.user_id =>
                        /\ ~user_tokens'[i].is_active
                        /\ (AuthMiddleware(Bearer(user_tokens[i].token), "none").status = 401)']_vars

\* RevokeAllTokens has answered 200 to a user with two sessions, both now
\* inactive and one of them not yet expired.
C3_Witness ==
    \E r \in DOMAIN req :
        /\ req[r].pc = "done" /\ req[r].route = RevokeAllRoute /\ req[r].status = 200
        /\ Cardinality(RowsOf(req[r].ctx.user_id)) >= 2
        /\ \A i \in RowsOf(req[r].ctx.user_id) : ~user_tokens[i].is_active
        /\ \E i \in RowsOf(req[r].ctx.user_id) : user_tokens[i].expires_at > now

\* C4: AuthMiddleware lets a request through only after the header check, the
\* session lookup and the token verification, made in this order, all passed;
\* a bearer token whose row is inactive is refused with 401 by the lookup, the
\* verification not being attempted, also when the token is well signed and
\* not expired.
C4_GateOrder ==
    [][\A r \in DOMAIN req :
          AuthStep(r) =>
              LET h == req[r].header
                  after == req'[r]
              IN  /\ after.ctx.set =>
                        /\ h.kind = "bearer"
                        /\ after.checks = <<"header", "registry", "signature">>
                        /\ \E i \in TokenIds : /\ user_tokens[i].token = h.token
                                               /\ user_tokens[i].is_active
                                               /\ user_tokens[i].expires_at > now
                        /\ h.token.signed /\ now < h.token.exp
                        /\ after.pc = "access" /\ after.status = 0
                  /\ ~after.ctx.set => (after.status = 401 /\ after.pc = "done")
                  /\ (h.kind = "bearer" /\ \E i \in TokenIds : /\ user_tokens[i].token = h.token
                                                             /\ ~user_tokens[i].is_active)
                        => (after.status = 401 /\ after.checks = <<"header", "registry">>)]_vars

\* A well signed, unexpired token whose row is inactive was refused by the lookup.
C4_Witness ==
    \E r \in DOMAIN req :
        /\ req[r].pc = "done" /\ req[r].status = 401
        /\ req[r].checks = <<"header", "registry">>
        /\ req[r].header.token.signed /\ now < req[r].header.token.exp
        /\ \E i \in TokenIds : /\ user_tokens[i].token = req[r].header.token
                               /\ ~user_tokens[i].is_active
                               /\ user_tokens[i].expires_at > now

\* C5: the handlers of a protected route run in the order AuthMiddleware,
\* APIAccessMiddleware, business handler, each at most once; a request that
\* goes on has no response yet; a request ends with exactly one response; when
\* a gate refused it (401, 403, 404, 500) nothing ran after that gate.
C5_ChainTerminal ==
    \A r \in DOMAIN req :
        LET rq == req[r]
        IN  /\ rq.ran \in {<<>>, <<"auth">>, <<"auth", "access">>, <<"auth", "access", "handler">>}
            /\ rq.responses <= 1
            /\ rq.pc = "auth" => rq.ran = <<>>
            /\ rq.pc = "access" => (rq.ran = <<"auth">> /\ rq.ctx.set)
            /\ rq.pc = "handler" => (rq.ran = <<"auth", "access">> /\ rq.ctx.set)
            /\ rq.pc \in {"auth", "access", "handler"} => (rq.responses = 0 /\ rq.status = 0)
            /\ rq.pc = "done" => rq.responses = 1
            /\ (rq.pc = "done" /\ Len(rq.ran) < 3) => rq.status \in {401, 403, 404, 500}
            /\ (rq.pc = "done" /\ Len(rq.ran) = 1) => rq.status = 401

\* APIAccessMiddleware refused an authenticated request with 403 and the
\* handler did not run.
C5_Witness ==
    \E r \in DOMAIN req :
        /\ req[r].pc = "done" /\ req[r].status = 403
        /\ req[r].ran = <<"auth", "access">>
        /\ req[r].ctx.set

\* ------------------------------------------------------------------ claims: menu tree

\* The rows reached from the rows S by following parent pointers, 1 to k times.
RECURSIVE AncestorsWithin(_, _)
AncestorsWithin(S, k) ==
    IF k = 0 \/ S = {} THEN {}
    ELSE LET up == {m.parent_id : m \in {x \in menus : x.id \in S /\ x.parent_id # NoParent}}
         IN  up \cup AncestorsWithin(up, k - 1)

\* The ancestors of row id: its parent, grandparent, ...
Ancestors(id) == AncestorsWithin({id}, Cardinality(menus))

Acyclic == \A m \in menus : m.id \notin Ancestors(m.id)

\* C8: in every state CreateMenu, UpdateMenu and DeleteMenu requests, run one
\* at a time, can reach, no menu is its own parent and no menu is reached
\* from itself by following parent pointers.
C8_ParentAcyclic == \A m \in menus : m.parent_id # m.id /\ m.id \notin Ancestors(m.id)

\* C9: on an acyclic store, an UpdateMenu that gives node n the parent p,
\* where n is an ancestor of p (its parent, grandparent, ...), is answered
\* 400 "Circular reference detected" and changes no row.
C9_CircularUpdateRejected ==
    [][\A n \in MenuIds, p \in MenuIds, a \in BOOLEAN :
          (/\ menuResp'.op = "UpdateMenu"
           /\ Acyclic
           /\ MenuRows(n) # {}
           /\ n \in Ancestors(p)
           /\ UpdateMenu(n, p, a))
          => /\ menuResp'.status = 400
             /\ menuResp'.error = "Circular reference detected"
             /\ menus' = menus
             /\ map_role_menu' = map_role_menu]_vars

\* An UpdateMenu was refused for a cycle that is two or more rows long: the
\* node is an ancestor of the parent asked for, but not its parent.
C9_Witness ==
    /\ menuResp.op = "UpdateMenu"
    /\ menuResp.status = 400
    /\ menuResp.error = "Circular reference detected"
    /\ Acyclic
    /\ menuResp.id \in Ancestors(menuResp.parent_id)
    /\ \A m \in MenuRows(menuResp.parent_id) : m.parent_id # menuResp.id

\* Every node of a forest of MenuResponse values, at every depth.
RECURSIVE NodesOf(_)
NodesOf(forest) == forest \cup UNION {NodesOf(n.children) : n \in forest}

\* C10: for a caller without super_admin every node of the answer of
\* GetUserMenus, at every depth, is an active menu granted to one of the
\* caller's roles and carries no role list; a caller with no role gets an
\* empty forest.
C10_UserMenusFiltered ==
    (menuResp.op = "GetUserMenus" /\ "super_admin" \notin menuResp.roles)
    => /\ \A n \in NodesOf(menuResp.body) :
             /\ n.is_active
             /\ \E m \in MenuRows(n.id) : m.is_active
             /\ MenuRoleNames(n.id) \cap menuResp.roles # {}
             /\ n.roles = {}
       /\ menuResp.roles = {} => menuResp.body = {}

\* A caller without super_admin got a tree two levels deep, while a child of
\* one of its nodes is left out.
C10_Witness ==
    /\ menuResp.op = "GetUserMenus"
    /\ "super_admin" \notin menuResp.roles
    /\ \E n \in menuResp.body : n.children # {}
    /\ \E m \in menus : /\ m.parent_id \in {n.id : n \in NodesOf(menuResp.body)}
                        /\ m.id \notin {n.id : n \in NodesOf(menuResp.body)}

\* C11: for a caller with super_admin the answer of GetUserMenus holds every
\* menu of the store, whatever roles the menu is granted to, and every node
\* of the answer carries the full list of the roles of its menu.
C11_SuperAdminUnfiltered ==
    (menuResp.op = "GetUserMenus" /\ "super_admin" \in menuResp.roles)
    => /\ {m.id : m \in menus} \subseteq {n.id : n \in NodesOf(menuResp.body)}
       /\ \A n \in NodesOf(menuResp.body) : n.roles = MenuRoleNames(n.id)

\* C12: DeleteMenu of a menu that has a child, active or not, is answered 400
\* and changes no row; a menu leaves the store only in a step in which no row
\* names it as parent.
C12_DeleteRefusedWithChildren ==
    [][menuResp'.op = "DeleteMenu" =>
          \A id \in MenuIds :
             DeleteMenu(id) =>
                /\ (\E c \in menus : c.parent_id = id)
                      => /\ menuResp'.status = 400
                         /\ menus' = menus
                         /\ map_role_menu' = map_role_menu
                /\ \A m \in menus :
                      m.id \notin {x.id : x \in menus'} => ~ \E c \in menus : c.parent_id = m.id]_vars

\* A DeleteMenu was refused for its children while every menu that has
\* children has inactive children only.
C12_Witness ==
    /\ menuResp.op = "DeleteMenu"
    /\ menuResp.status = 400
    /\ \A c \in menus : c.parent_id # NoParent => ~ c.is_active
    /\ \E c \in menus : c.parent_id # NoParent

\* ------------------------------------------------------------------ claims: sessions, second part

\* C13: when the store fails during the session lookup of AuthMiddleware,
\* during the lookup of the apis row or during the count of the grants of
\* APIAccessMiddleware, the request ends there with a status that is not 2xx
\* and its handler does not run.
C13_FailClosed ==
    [][\A r \in DOMAIN req :
          (AuthStage(r, "lookup") \/ AccessStage(r, "lookup") \/ AccessStage(r, "count"))
          => /\ req'[r].pc = "done"
             /\ req'[r].status >= 300
             /\ req'[r].responses = 1
             /\ \A i \in DOMAIN req'[r].ran : req'[r].ran[i] # "handler"]_vars

\* A request was refused at the session lookup although its token has a
\* valid row and a valid signature: the lookup failed.
C13_Witness ==
    \E r \in DOMAIN req :
        /\ req[r].pc = "done"
        /\ req[r].status = 401
        /\ req[r].checks = <<"header", "registry">>
        /\ req[r].header.kind = "bearer"
        /\ ValidateTokenFromDB(req[r].header.token) # {}
        /\ ParseWithClaims(req[r].header.token)

\* C14: a bearer token that has no row, or whose row is inactive, or whose
\* row has expired gets one and the same answer from AuthMiddleware: 401 with
\* the body "Token not found or expired", and the lookup finds no row in all
\* three cases.
C14_RevokedLikeUnknown ==
    [][\A r \in DOMAIN req :
          (/\ AuthStep(r)
           /\ req[r].header.kind = "bearer"
           /\ \A i \in TokenIds :
                 user_tokens[i].token = req[r].header.token
                 => (~user_tokens[i].is_active \/ user_tokens[i].expires_at <= now))
          => /\ ValidateTokenFromDB(req[r].header.token) = {}
             /\ req'[r].status = 401
             /\ req'[r].error = "Token not found or expired"
             /\ req'[r].checks = <<"header", "registry">>]_vars

\* A token whose row was deactivated, not expired and rightly signed, got
\* the answer of an unknown token.
C14_Witness ==
    \E r \in DOMAIN req :
        /\ req[r].pc = "done"
        /\ req[r].status = 401
        /\ req[r].error = "Token not found or expired"
        /\ req[r].header.kind = "bearer"
        /\ ParseWithClaims(req[r].header.token)
        /\ \E i \in TokenIds : /\ user_tokens[i].token = req[r].header.token
                                /\ ~user_tokens[i].is_active
                                /\ user_tokens[i].expires_at > now

\* C15: no step deletes a row of user_tokens or changes the token, the owner
\* or the expiry of a row; is_active only goes from true to false; a step
\* of the clock changes no row.
C15_SessionRowsMonotone ==
    [][/\ Len(user_tokens') >= Len(user_tokens)
       /\ \A i \in TokenIds :
             /\ user_tokens'[i].token = user_tokens[i].token
             /\ user_tokens'[i].user_id = user_tokens[i].user_id
             /\ user_tokens'[i].expires_at = user_tokens[i].expires_at
             /\ user_tokens'[i].is_active => user_tokens[i].is_active
       /\ now' # now => user_tokens' = user_tokens]_vars

\* One session was deactivated by a handler, another one has expired and is
\* still flagged active.
C15_Witness ==
    \E i, j \in TokenIds :
        /\ ~user_tokens[i].is_active
        /\ user_tokens[i].token \in revoked
        /\ user_tokens[j].is_active
        /\ user_tokens[j].expires_at <= now

\* C17: for every session row the expiry check of the store (expires_at is
\* after now) and the expiry check of the token (now is before exp) give
\* the same verdict at every time.
C17_ExpiryChecksAgree ==
    \A i \in TokenIds :
        (user_tokens[i].expires_at > now) <=> (now < user_tokens[i].token.exp)

\* C16: Logout deactivates the row of the token the request presented (the
\* token_id AuthMiddleware put in the context) and changes no other row:
\* the other sessions, those of the same user too, keep their flag.
C16_LogoutOnlyCallingSession ==
    [][\A r \in DOMAIN req :
          (Logout(r) /\ req[r].ctx.set)
          => /\ req[r].ctx.token_id \in TokenIds
             /\ user_tokens[req[r].ctx.token_id].token = req[r].header.token
             /\ ~user_tokens'[req[r].ctx.token_id].is_active
             /\ Len(user_tokens') = Len(user_tokens)
             /\ \A i \in TokenIds :
                   i # req[r].ctx.token_id => user_tokens'[i] = user_tokens[i]]_vars

\* After a Logout the calling session is inactive while another session of
\* the same user is still active and not expired.
C16_Witness ==
    \E r \in DOMAIN req :
        /\ req[r].route = LogoutRoute
        /\ req[r].pc = "done"
        /\ req[r].status = 200
        /\ ~user_tokens[req[r].ctx.token_id].is_active
        /\ \E j \in TokenIds : /\ j # req[r].ctx.token_id
                                /\ user_tokens[j].user_id = req[r].ctx.user_id
                                /\ user_tokens[j].is_active
                                /\ user_tokens[j].expires_at > now

\* C18: a process whose signing secret is empty does not serve: it issues no
\* token and lets no token through the gate.
C18_SecretNonEmpty ==
    JWTSecret = ""
    => /\ user_tokens = <<>>
       /\ \A r \in DOMAIN req : ~req[r].ctx.set

\* ------------------------------------------------------------------ claims: permission matrix, second part

\* C19: once AssignAPIToRole has granted an entry to a role, the next
\* CheckAccess on the entry's route by a caller holding that role lets the
\* request through; once RemoveAPIFromRole has taken the grant away, the next
\* CheckAccess by a caller holding that role alone answers 403.
C19_GrantsImmediate ==
    [][\A a \in apis, r \in roles :
          /\ AssignAPIToRole(a.id, r.id)
                => AccessStatus(a.path, a.method, {r.name}, "none")' = 0
          /\ RemoveAPIFromRole(a.id, r.id)
                => AccessStatus(a.path, a.method, {r.name}, "none")' = 403]_vars

\* C20: a step of insertAPIEndpoints deletes no row of table apis and changes
\* none (the rows of routes that are not declared any more included), adds
\* at most one row, and leaves the grants of map_role_api and the roles as
\* they are.
C20_ReconcileAppendOnly ==
    [][(\E fail \in {"none", "lookup", "create"} : ReconcileStep(fail))
          => /\ apis \subseteq apis'
             /\ Cardinality(apis') <= Cardinality(apis) + 1
             /\ \A a \in apis' \ apis : \E i \in 1..Len(routes) : routes[i] = <<a.path, a.method>>
             /\ map_role_api' = map_role_api
             /\ roles' = roles]_vars

\* After a complete run the entry of a declared route is there, and so is
\* the entry of a route that is declared no more, with a grant.
C20_Witness ==
    /\ boot.i = 0
    /\ reconciled.valid
    /\ \E a \in apis : /\ <<a.path, a.method>> = StaleRoute
                        /\ \A i \in 1..Len(routes) : routes[i] # StaleRoute
                        /\ \E g \in map_role_api : g.api_id = a.id
    /\ \E a \in apis : <<a.path, a.method>> = LogoutRoute

\* ------------------------------------------------------------------ claims: startup

\* C21: when runs of insertAPIEndpoints stopped after inserting entries for only
\* some of the declared routes, a later run that reaches its end without store
\* error leaves exactly one entry for every declared (path, method), and the
\* entries the stopped runs inserted are all still there, as they were.
C21_ReconcileConverges ==
    (boot.i = 0 /\ reconciled.valid /\ partial.left # {})
        => /\ \A i \in 1..Len(routes) :
                Cardinality({a \in apis : <<a.path, a.method>> = routes[i]}) = 1
           /\ partial.left \subseteq apis

\* A run has ended cleanly over the entries a stopped run left, having added
\* the entry of a declared route the stopped run had not reached.
C21_Witness ==
    /\ boot.i = 0
    /\ reconciled.valid
    /\ partial.left # {}
    /\ \E a \in apis \ partial.left : \E i \in 1..Len(routes) : routes[i] = <<a.path, a.method>>
    /\ \E a \in partial.left : \E i \in 1..Len(routes) : routes[i] = <<a.path, a.method>>

\* ------------------------------------------------------------------ claims: login audit

\* The goroutines saveLoginLog started for attempt k.
TasksOf(k) == {t \in DOMAIN tasks : tasks[t].attempt = k}

\* C22: every Login attempt, whatever its outcome, has started exactly one audit
\* goroutine by the time it answers, so at most one row of login_logs is
\* written per attempt; the response answered is the one of the path Login took
\* (two attempts on the same path get the same status and body) whether the
\* write succeeded, failed or has not run, and a successful login is answered
\* 200 also when its write failed.
C22_AuditFireAndForget ==
    /\ \A k \in DOMAIN logins :
          /\ Cardinality(TasksOf(k)) = 1
          /\ Cardinality({l \in login_logs : l.attempt = k}) <= 1
          /\ (logins[k].pc = "done" /\ logins[k].path = "ok")
                => logins[k].status = 200 /\ logins[k].token
          /\ (logins[k].pc = "done" /\ logins[k].path # "ok")
                => logins[k].status \in {400, 401, 500} /\ ~logins[k].token
    /\ \A j, k \in DOMAIN logins :
          (logins[j].pc = "done" /\ logins[k].pc = "done" /\ logins[j].path = logins[k].path)
              => /\ logins[j].status = logins[k].status
                 /\ logins[j].error = logins[k].error

\* Two logins on the success path have been answered, one whose audit write
\* failed and one whose write succeeded: one row is in login_logs.
C22_Witness ==
    /\ Len(logins) = 2
    /\ \A k \in DOMAIN logins : logins[k].pc = "done" /\ logins[k].path = "ok"
    /\ \E t \in TasksOf(1) : tasks[t].state = "failed"
    /\ \E t \in TasksOf(2) : tasks[t].state = "written"
    /\ Cardinality(login_logs) = 1

\* ------------------------------------------------------------------ claims: sessions, third part

\* C23: a store error met by a check that decides on access is answered 500:
\* when the session lookup of AuthMiddleware fails for a request carrying the
\* token of a live session, and when the apis lookup of APIAccessMiddleware
\* fails for an authenticated request on a route that has an entry, the
\* response status is 500.
C23_StoreFailureIs500 ==
    [][\A r \in DOMAIN req :
          /\ (/\ req[r].header.kind = "bearer"
              /\ ValidateTokenFromDB(req[r].header.token) # {}
              /\ AuthStage(r, "lookup"))
                => req'[r].status = 500
          /\ (/\ req[r].ctx.set
              /\ ApisMatching(req[r].route[1], req[r].route[2]) # {}
              /\ AccessStage(r, "lookup"))
                => req'[r].status = 500]_vars

\* ------------------------------------------------------------------ claims: menu tree, third part

\* C24: on every store CreateMenu, UpdateMenu and DeleteMenu can produce, the
\* walk of isCircularReference ends for every menu and every candidate parent
\* UpdateMenu would validate: it answers "no cycle" (a root or a missing row
\* was reached) or "cycle" (the menu being updated was reached).
C24_ValidationTerminates ==
    \A menu \in menus, parent \in menus :
        parent.id # menu.id => isCircularReference(parent.id, menu.id) \in {"false", "true"}

\* C25: the answer of GetUserMenus is closed under parents: every node of it
\* that has a parent is among the children of the node of its parent, and a
\* menu whose parent is inactive or granted to none of the caller's roles is
\* nowhere in the answer, active and granted to the caller though it may be.
C25_ClosedUnderAncestors ==
    menuResp.op = "GetUserMenus"
    => /\ \A n \in NodesOf(menuResp.body) :
             n.parent_id # NoParent
                => \E q \in NodesOf(menuResp.body) : q.id = n.parent_id /\ n \in q.children
       /\ \A n \in menuResp.body : n.parent_id = NoParent
       /\ \A m \in menus, q \in menus :
             (/\ m.parent_id = q.id
              /\ ~q.is_active \/ MenuRoleNames(q.id) \cap menuResp.roles = {})
                => m.id \notin {n.id : n \in NodesOf(menuResp.body)}

\* The caller got a root; a menu that is active and granted to one of the
\* caller's roles is not in the answer, because its parent, a child of that
\* root, is filtered out.
C25_Witness ==
    /\ menuResp.op = "GetUserMenus"
    /\ \E n \in menuResp.body, m \in menus, q \in menus :
          /\ q.parent_id = n.id
          /\ m.parent_id = q.id
          /\ m.is_active
          /\ MenuRoleNames(m.id) \cap menuResp.roles # {}
          /\ ~q.is_active \/ MenuRoleNames(q.id) \cap menuResp.roles = {}
          /\ m.id \notin {x.id : x \in NodesOf(menuResp.body)}

\* The menus BuildForRoles filters in for a caller: active and granted to one
\* of the caller's roles.
Accessible(userRoles) ==
    {m \in menus : m.is_active /\ MenuRoleNames(m.id) \cap userRoles # {}}

\* C26 as stated: the flat listing holds the menus accessible to the caller,
\* those under a filtered parent included, and no others, each without children.
C26_FlatListsAccessible ==
    menuResp.op = "GetMenus?flat=true"
    => /\ {n.id : n \in menuResp.body} = {m.id : m \in Accessible(menuResp.roles)}
       /\ \A n \in menuResp.body : n.children = {}

\* C26, amended: the flat listing holds every menu of the store, whatever the
\* caller's roles, the menu's grants and its is_active; so every menu
\* accessible to the caller is in it, those under a filtered parent included;
\* no node carries children and every node carries the roles of its menu.
C26_FlatListsEveryMenu ==
    menuResp.op = "GetMenus?flat=true"
    => /\ {n.id : n \in menuResp.body} = {m.id : m \in menus}
       /\ {m.id : m \in Accessible(menuResp.roles)} \subseteq {n.id : n \in menuResp.body}
       /\ \A n \in menuResp.body :
             /\ n.children = {}
             /\ n.roles = MenuRoleNames(n.id)
             /\ \E m \in MenuRows(n.id) : m.parent_id = n.parent_id /\ m.is_active = n.is_active

\* A flat listing holds a menu accessible to the caller whose parent is not,
\* and the parent as well.
C26_Witness ==
    /\ menuResp.op = "GetMenus?flat=true"
    /\ \E m \in Accessible(menuResp.roles), q \in menus \ Accessible(menuResp.roles) :
          /\ m.parent_id = q.id
          /\ {m.id, q.id} \subseteq {n.id : n \in menuResp.body}

C28_NoCheckBeforeReconciled ==
    [][(access' # access /\ access' # NoAccess) => (boot.i = 0 /\ boot'.i = 0)]_vars

\* A request on a declared route has been answered 404: the run of
\* insertAPIEndpoints before it ended on a store error and left no entry for
\* the route.
C28_Witness ==
    /\ boot.i = 0
    /\ ~reconciled.valid
    /\ access.status = 404
    /\ access.fail = "none"
    /\ \E i \in 1..Len(routes) : routes[i] = <<access.path, access.method>>
    /\ apis # {}

\* C29: the token registerUser returns is never a row of user_tokens, so a
\* request that presents it ends in AuthMiddleware with 401 at the session
\* lookup, before the signature is looked at, however valid the signature and
\* the embedded expiry; a request is authenticated only with a token that a
\* Login saved.
C29_RegisterTokenRejected ==
    /\ \A i \in TokenIds : user_tokens[i].token # RegisterToken
    /\ \A r \in DOMAIN req :
          /\ (req[r].header = Bearer(RegisterToken) /\ req[r].pc \notin {"idle", "auth"})
                => /\ req[r].pc = "done"
                   /\ req[r].status = 401
                   /\ req[r].error = "Token not found or expired"
                   /\ req[r].checks = <<"header", "registry">>
                   /\ ~req[r].ctx.set
          /\ req[r].ctx.set
                => \E i \in TokenIds : /\ user_tokens[i].token = req[r].header.token
                                       /\ user_tokens[i].user_id = req[r].ctx.user_id

\* The token of registerUser, its expiry still ahead, was refused with 401
\* while the same user has a live session from a Login.
C29_Witness ==
    \E r \in DOMAIN req :
        /\ req[r].header = Bearer(RegisterToken)
        /\ req[r].pc = "done" /\ req[r].status = 401
        /\ now < RegisterToken.exp
        /\ \E i \in TokenIds : /\ user_tokens[i].user_id = RegisterToken.user_id
                               /\ user_tokens[i].is_active
                               /\ user_tokens[i].expires_at > now

\* C30: the roles a request is authorized with are those in its token, the
\* names the user had at Login, whatever AssignRoleToUser and RemoveRoleFromUser
\* have done to the user since: the context holds the token's roles,
\* APIAccessMiddleware lets the request through exactly when an entry of its
\* route is granted to one of them, and GetUserMenus answers the menus of
\* those roles.
C30_RolesAreLoginSnapshot ==
    \A r \in DOMAIN req :
        LET rq == req[r]
            names == rq.header.token.roles
            granted == \E g \in map_role_api :
                          /\ g.role_id \in RoleIdsNamed(names)
                          /\ \E a \in apis : a.id = g.api_id /\ <<a.path, a.method>> = rq.route
        IN  /\ rq.ctx.set => rq.ctx.roles = names
            /\ (rq.pc = "done" /\ rq.status = 200) => granted
            /\ (rq.pc = "done" /\ rq.status = 403) => ~granted
            /\ (rq.pc = "done" /\ rq.status = 200 /\ rq.route = UserMenusRoute)
                  => /\ menuResp.roles = names
                     /\ {n.id : n \in NodesOf(menuResp.body)}
                           = {m.id : m \in {x \in menus : x.is_active /\ MenuRoleNames(x.id) \cap names # {}}}

\* A session issued while its user had role ops was let through and got the
\* menu granted to ops, after the role had been taken from the user.
C30_Witness ==
    \E r \in DOMAIN req :
        /\ req[r].pc = "done" /\ req[r].status = 200
        /\ req[r].route = UserMenusRoute
        /\ req[r].header.token.roles = {"ops"}
        /\ RoleNamesOf(req[r].header.token.user_id) = {}
        /\ menuResp.body # {}

\* ------------------------------------------------------------------ C31

\* The rows of user_tokens that hold the token string t.
RowsWithToken(t) == {i \in TokenIds : user_tokens[i].token = t}

\* C31 (as stated): when Login answers 200, the token it hands over has exactly
\* one session row and that row is active at the moment of the response.
C31_ReturnedTokenActive ==
    [][\A k \in DOMAIN logins :
          (logins[k].pc = "respond" /\ logins'[k].pc = "done" /\ logins'[k].status = 200)
              => /\ Cardinality(RowsWithToken(logins[k].jwt)) = 1
                 /\ \A i \in RowsWithToken(logins[k].jwt) : user_tokens[i].is_active]_vars

\* C31 (amended): Login saves the row before it answers. The step that reaches
\* the save appends one active row holding the generated token when the save
\* succeeds and leaves the store as it was when the save fails; the answer is
\* 200 with the token exactly when the row was saved, 500 without a token when
\* the save failed; and at the moment of a 200 the token has exactly one row,
\* which is active unless a revocation has deactivated it since it was saved.
C31_ReturnedTokenSaved ==
    [][/\ Len(logins') > Len(logins) =>
            LET a == logins'[Len(logins')]
            IN  IF a.path = "ok"
                THEN /\ RowsWithToken(a.jwt) = {}
                     /\ user_tokens' = Append(user_tokens,
                                              [user_id |-> a.login, token |-> a.jwt,
                                               expires_at |-> now + TokenTTL, is_active |-> TRUE])
                ELSE user_tokens' = user_tokens
       /\ \A k \in DOMAIN logins :
            (logins[k].pc = "respond" /\ logins'[k].pc = "done")
                => /\ logins'[k].status = 200 <=> logins[k].path = "ok"
                   /\ logins'[k].token <=> logins[k].path = "ok"
                   /\ logins[k].path = "tokensave"
                        => logins'[k].status = 500 /\ logins'[k].error = "Failed to save token"
                   /\ logins'[k].status = 200
                        => /\ Cardinality(RowsWithToken(logins[k].jwt)) = 1
                           /\ \A i \in RowsWithToken(logins[k].jwt) :
                                 user_tokens[i].is_active \/ logins[k].jwt \in revoked]_vars

\* Both outcomes have been answered: a login of a user whose token string is
\* already in the store (a second login within the same second) got 500, and a
\* login got 200 for a token whose row RevokeAllTokens deactivated between the
\* save and the response.
C31_Witness ==
    /\ \E k \in DOMAIN logins :
          /\ logins[k].pc = "done" /\ logins[k].path = "tokensave"
          /\ RowsWithToken(logins[k].jwt) # {}
    /\ \E k \in DOMAIN logins :
          /\ logins[k].pc = "done" /\ logins[k].status = 200
          /\ \E i \in RowsWithToken(logins[k].jwt) : ~user_tokens[i].is_active

\* ------------------------------------------------------------------ C32

\* C32: RevokeToken changes rows of the caller only: the rows a RevokeToken step
\* changes have the caller's user_id, and a request that names the id of a row
\* of another user is answered 404 and changes no row.
C32_RevokeOnlyOwnSessions ==
    [][\A r \in DOMAIN req :
          (req[r].pc = "handler" /\ req[r].route = RevokeTokenRoute /\ req'[r].pc = "done")
              => /\ Len(user_tokens') = Len(user_tokens)
                 /\ \A i \in TokenIds :
                       user_tokens'[i] # user_tokens[i]
                           => user_tokens[i].user_id = req[r].ctx.user_id
                 /\ (req[r].id \in TokenIds /\ user_tokens[req[r].id].user_id # req[r].ctx.user_id)
                       => /\ req'[r].status = 404
                          /\ user_tokens' = user_tokens]_vars

\* A request of one user named the active session of the other, got 404, and
\* that session is still active.
C32_Witness ==
    \E r \in DOMAIN req :
        /\ req[r].pc = "done"
        /\ req[r].route = RevokeTokenRoute
        /\ req[r].ran = <<"auth", "access", "handler">>
        /\ req[r].status = 404
        /\ req[r].id \in TokenIds
        /\ user_tokens[req[r].id].user_id # req[r].ctx.user_id
        /\ user_tokens[req[r].id].is_active

\* ------------------------------------------------------------------ C33

\* C33: an entry insertAPIEndpoints inserts has no grant; a check on a route
\* whose entry has no grant answers 403 to every caller; and on a store that
\* was empty at the first start no request adds the first grant: while table
\* map_role_api is empty every check on a route with an entry is 403 (after a
\* complete run: on every declared route, the route of AssignAPIToRole among
\* them), and the first grant comes from the seed script.
C33_ReconciledEntriesForbidden ==
    [][/\ boot.i > 0 => \A a \in apis' \ apis : ~\E m \in map_role_api' : m.api_id = a.id
       /\ (access' # access /\ access' # NoAccess)
             => /\ (/\ ApisMatching(access'.path, access'.method) # {}
                    /\ GrantedRoles(First(ApisMatching(access'.path, access'.method))) = {})
                      => access'.status = 403
                /\ (map_role_api = {} /\ reconciled.valid) => access'.status = 403
       /\ (map_role_api = {} /\ map_role_api' # {}) => SeedSuperAdminGrants]_vars

\* After a complete run on the empty store, with no grant made, a caller
\* carrying super_admin has been refused with 403 on the route of AssignAPIToRole.
C33_Witness ==
    /\ reconciled.valid
    /\ Cardinality(apis) = Len(routes)
    /\ map_role_api = {}
    /\ access.path = AssignRoute[1] /\ access.method = AssignRoute[2]
    /\ access.roles = {"super_admin"}
    /\ access.status = 403

\* ------------------------------------------------------------------ C34

\* C34: the session is looked up once per request, by AuthMiddleware. A
\* request whose AuthMiddleware runs after Logout, RevokeToken or
\* RevokeAllTokens deactivated the row of its token is answered 401 there; a
\* request that is past AuthMiddleware is decided by APIAccessMiddleware on the
\* roles in its context and served by its handler whatever has become of its
\* session row meanwhile.
C34_RevocationCheckedOnce ==
    [][\A r \in DOMAIN req :
          /\ (req[r].pc = "auth" /\ req'[r].pc # "auth" /\ req[r].header.token \in revoked)
                => /\ req'[r].pc = "done"
                   /\ req'[r].status = 401
                   /\ req'[r].ran = <<"auth">>
          /\ (req[r].pc = "access" /\ req'[r].pc # "access")
                => LET status == AccessStatus(req[r].route[1], req[r].route[2], req[r].ctx.roles, "none")
                   IN  /\ req'[r].status = status
                       /\ req'[r].pc = IF status = 0 THEN "handler" ELSE "done"
          /\ (req[r].pc = "handler" /\ req'[r].pc # "handler" /\ req[r].route = RolesRoute)
                => /\ req'[r].status = 200
                   /\ req'[r].ran = <<"auth", "access", "handler">>]_vars

\* A read request is past AuthMiddleware and has yet to meet APIAccessMiddleware
\* while the row of its token has been deactivated by a request of the other
\* connection, which has been answered 200.
C34_Witness ==
    /\ req[1].pc = "access"
    /\ req[1].ctx.set
    /\ req[1].header.token \in revoked
    /\ ValidateTokenFromDB(req[1].header.token) = {}
    /\ now < req[1].header.token.exp
    /\ req[2].pc = "done" /\ req[2].status = 200
    /\ req[2].route \in {LogoutRoute, RevokeTokenRoute, RevokeAllRoute}

\* ------------------------------------------------------------------ C35

\* C35: RevokeAllTokens is one update over the rows its caller has at that
\* moment: the step deactivates exactly those rows and changes no row of another
\* user; a row Login inserts afterwards is active, whenever that Login began,
\* no later step other than a revocation by its owner deactivates it, and
\* AuthMiddleware accepts its token while it is active and has not expired.
C35_RevokeAllOnlyRowsPresent ==
    [][/\ \A r \in DOMAIN req :
            (req[r].pc = "handler" /\ req[r].route = RevokeAllRoute /\ req'[r].pc = "done")
                => /\ req'[r].status = 200
                   /\ user_tokens' =
                        [i \in TokenIds |->
                            IF user_tokens[i].user_id = req[r].ctx.user_id
                            THEN [user_tokens[i] EXCEPT !.is_active = FALSE]
                            ELSE user_tokens[i]]
       /\ Len(user_tokens') > Len(user_tokens)
            => /\ \A i \in TokenIds : user_tokens'[i] = user_tokens[i]
               /\ user_tokens'[Len(user_tokens')].is_active
       /\ \A i \in TokenIds :
            (user_tokens[i].is_active /\ ~user_tokens'[i].is_active)
                => \E r \in DOMAIN req :
                      /\ req[r].pc = "handler" /\ req'[r].pc = "done"
                      /\ req[r].ctx.user_id = user_tokens[i].user_id
       /\ \A r \in DOMAIN req :
            (/\ req[r].pc = "auth" /\ req'[r].pc # "auth"
             /\ ValidateTokenFromDB(req[r].header.token) # {}
             /\ ParseWithClaims(req[r].header.token))
                => /\ req'[r].pc = "access"
                   /\ req'[r].ctx.set
                   /\ req'[r].ctx.user_id = req[r].header.token.user_id]_vars

\* RevokeAllTokens of u1 has answered 200 and deactivated the session it was
\* sent with; a Login of u1 that has not answered yet has inserted its row
\* since, and that row is active.
C35_Witness ==
    /\ \E r \in DOMAIN req :
          /\ req[r].pc = "done" /\ req[r].route = RevokeAllRoute /\ req[r].status = 200
          /\ req[r].ctx.user_id = "u1"
          /\ \A i \in RowsWithToken(req[r].header.token) : ~user_tokens[i].is_active
    /\ \E k \in DOMAIN logins :
          /\ logins[k].login = "u1" /\ logins[k].pc = "respond" /\ logins[k].path = "ok"
          /\ \E i \in RowsWithToken(logins[k].jwt) :
                user_tokens[i].is_active /\ user_tokens[i].expires_at > now

\* ------------------------------------------------------------------ C36

\* C36: the cycle check of UpdateMenu and its write cannot be separated by the
\* write of another request: when the new parent of a request is saved, the
\* check would still pass, that is, the node is not an ancestor of its new
\* parent at that moment (so of two requests that make A and B each other's
\* parent at most one is applied).
C36_CheckAndWriteAtomic ==
    [][\A s \in MenuSlots :
          (/\ menuReq[s].op = "UpdateMenu" /\ menuReq[s].pc = "save"
           /\ menuReq'[s].pc = "done" /\ menuReq'[s].status = 200
           /\ menuReq[s].parent_id \notin {NoParent, menuReq[s].id})
              => isCircularReference(menuReq[s].parent_id, menuReq[s].id) # "true"]_vars

\* ------------------------------------------------------------------ C37

RECURSIVE ParentChain(_, _)
ParentChain(id, n) ==
    IF n = 0 THEN {}
    ELSE LET ps == {m.parent_id : m \in MenuRows(id)} \ {NoParent}
         IN  ps \cup UNION {ParentChain(p, n - 1) : p \in ps}

\* The row is on a cycle of the parent relation (a self-parent is a cycle of
\* one): it is its own ancestor.
OnCycle(id) == id \in ParentChain(id, Cardinality(menus))

\* C38: on every menu store, with or without cycles and self-parents, the
\* descent of GetMenus in tree mode and the descent of GetUserMenus for any
\* caller end: no call is for a row already on its own path (no call lies
\* deeper than the store has rows), no row is visited by two calls, and no
\* row on a cycle is visited.
C38_DescentTerminates ==
    \A calls \in {GetMenusCalls} \cup {GetUserMenusCalls(names) : names \in CallerRoleSets} :
        /\ \A p \in calls : Len(p) <= Cardinality(menus)
        /\ \A p, q \in calls : p[Len(p)] = q[Len(q)] => p = q
        /\ \A p \in calls : ~OnCycle(p[Len(p)])

\* GetMenus in tree mode answered 200 with the tree of a root and its child
\* from a store that also holds a row on a cycle, and the role of the caller
\* of GetUserMenus is granted a root.
C38_Witness ==
    /\ menuResp.op = "GetMenus"
    /\ menuResp.status = 200
    /\ \E m \in menus : OnCycle(m.id)
    /\ \E p \in GetMenusCalls : Len(p) = 2
    /\ GetUserMenusCalls({"ops"}) # {}

====
